---- MODULE Spec2Model ----
(***************************************************************************)
(* The milestone driver of the ledger analytics engine                     *)
(* (src/src/analytics/mod.rs): Milestone::update_analytics walks the cone  *)
(* of a milestone, resolves the consumed and created outputs of every      *)
(* included transaction, fans handle_transaction / handle_block /          *)
(* end_milestone out to a list of analytics and writes the measurements    *)
(* to the time-series sink.                                                *)
(*                                                                         *)
(* An analytic of the list is a Box<dyn DynAnalytics>: its state is        *)
(* modelled as the sequence of events it has received.                     *)
(***************************************************************************)
EXTENDS Integers, Sequences, FiniteSets, TLC

\* ------------------------------------------------------------------ bounds
MaxSteps == 3       \* update_analytics invocations plus blocks streamed
NumAnalytics == 2   \* length of the analytics list
MaxMissing == 2     \* output ids the ledger update store fails to resolve

FirstMilestone == 1 \* index of the first milestone delivered

None == [some |-> FALSE]
Some(v) == [some |-> TRUE, val |-> v]

\* ------------------------------------------------------- the data streamed
InclusionStates == {"Included", "Conflicting", "NoTransaction"}

\* Output ids are (transaction_id, index).  Transaction 0 stands for the
\* earlier transactions whose outputs the inputs of the cone spend.
Utxo(k) == [kind |-> "Utxo", output_id |-> <<0, k>>]
Treasury == [kind |-> "Treasury", output_id |-> <<0, 0>>]

\* Payload::Transaction with TransactionEssence::Regular { inputs, outputs }:
\* a non-UTXO input and two UTXO inputs, not in the order of their ids, and
\* two outputs
TxPayloads ==
    { [kind |-> "Transaction", transaction_id |-> 1,
       inputs |-> <<Treasury, Utxo(2), Utxo(1)>>, outputs |-> <<"a", "b">>] }

\* the other variants of Option<Payload>
OtherPayloads ==
    { [kind |-> k, transaction_id |-> 0, inputs |-> <<>>, outputs |-> <<>>] :
        k \in {"None", "Milestone", "TreasuryTransaction", "TaggedData"} }

Payloads == TxPayloads \cup OtherPayloads

InputIds == { <<0, 1>>, <<0, 2>> }
CreatedIds ==
    UNION { { <<p.transaction_id, j - 1>> : j \in 1..Len(p.outputs) } : p \in TxPayloads }

\* A LedgerUpdateStore: the output ids get_consumed and get_created resolve.
LedgerUpdateStores ==
    { [consumed |-> InputIds \ mc, created |-> CreatedIds \ mo] :
        <<mc, mo>> \in { m \in (SUBSET InputIds) \X (SUBSET CreatedIds) :
                           Cardinality(m[1]) + Cardinality(m[2]) <= MaxMissing } }

\* the store once its defects are repaired: every output id resolves
Repaired == [consumed |-> InputIds, created |-> CreatedIds]

\* BlockData { block, metadata }
BlockData(id, payload, inclusion_state, ms) ==
    [block |-> [block_id |-> id, payload |-> payload],
     metadata |-> [inclusion_state |-> inclusion_state,
                   referenced_by_milestone_index |-> ms]]

\* --------------------------------------------------------------- results
Ok(v) == [ok |-> TRUE, val |-> v]
Err(e) == [ok |-> FALSE, err |-> e]

\* OutputId::to_hex: the hexadecimal rendering of transaction id and index
to_hex(output_id) == <<"0x", output_id[1], output_id[2]>>

MissingLedgerOutput(output_id, milestone_index) ==
    [kind |-> "MissingLedgerOutput", output_id |-> output_id,
     milestone_index |-> milestone_index]
MissingLedgerSpent(output_id, milestone_index) ==
    [kind |-> "MissingLedgerSpent", output_id |-> output_id,
     milestone_index |-> milestone_index]

LedgerSpent(output_id) == [record |-> "LedgerSpent", output_id |-> output_id]
LedgerOutput(output_id) == [record |-> "LedgerOutput", output_id |-> output_id]

get_consumed(lu, output_id) ==
    IF output_id \in lu.consumed THEN Some(LedgerSpent(output_id)) ELSE None
get_created(lu, output_id) ==
    IF output_id \in lu.created THEN Some(LedgerOutput(output_id)) ELSE None

\* Iterator::collect::<Result<Vec<_>>>: the first error, else all the values
Collect(rs) ==
    IF \E i \in DOMAIN rs : ~rs[i].ok
    THEN rs[CHOOSE i \in DOMAIN rs : ~rs[i].ok /\ \A j \in 1..(i - 1) : rs[j].ok]
    ELSE Ok([i \in DOMAIN rs |-> rs[i].val])

\* --------------------------------------------- the analytics list (fan-out)
\* faulty variant: the loop is left after the first analytic of the list
Analytics_handle_block_FirstOnly(an, block_data, ctx) ==
    [i \in DOMAIN an |->
        IF i = 1
        THEN Append(an[i], [ev |-> "handle_block", block_data |-> block_data, ctx |-> ctx])
        ELSE an[i]]

\* impl<T: AsMut<[Analytic]>> Analytics for T
Analytics_handle_block(an, block_data, ctx) ==
    [i \in DOMAIN an |->
        Append(an[i], [ev |-> "handle_block", block_data |-> block_data, ctx |-> ctx])]

\* faulty variant: the loop starts at the second analytic of the list
Analytics_handle_transaction_SkipFirst(an, consumed, created, ctx, of_block) ==
    [i \in DOMAIN an |->
        IF i = 1 THEN an[i]
        ELSE Append(an[i], [ev |-> "handle_transaction", consumed |-> consumed,
                            created |-> created, ctx |-> ctx, of_block |-> of_block])]

\* of_block is not an argument of the call: it records the block the driver
\* was handling, for the ordering properties.
Analytics_handle_transaction(an, consumed, created, ctx, of_block) ==
    [i \in DOMAIN an |->
        Append(an[i], [ev |-> "handle_transaction", consumed |-> consumed,
                       created |-> created, ctx |-> ctx, of_block |-> of_block])]

\* Analytics::end_milestone of one analytic "return[s] the measurement if one
\* was created": the analytics at odd positions of the list measure every
\* milestone, those at even positions only a milestone with a transaction.
Emits(i, log, ctx) ==
    \/ i % 2 = 1
    \/ \E k \in DOMAIN log : log[k].ev = "handle_transaction" /\ log[k].ctx = ctx

\* DynAnalytics::end_milestone of one analytic: its measurement, if it
\* returns one, stamped with ctx.at()
DynAnalytics_end_milestone(i, log, ctx) ==
    IF Emits(i, log, ctx)
    THEN Some([at |-> ctx.at, inner |-> [analytic |-> i, value |-> Len(log)]])
    ELSE None

\* iter_mut() of the three loops: the analytics are visited from the first of
\* the list to the last
DispatchOrder(an) == [k \in 1..Len(an) |-> k]

\* the calls made on the analytics between two states of the list, in the
\* order made: each event goes through the whole list before the next event.
\* A call is recorded as the analytic called and the position of the event
\* among those the analytic has received.
Delivered(old, new) ==
    LET n(i) == Len(new[i]) - Len(old[i])
        Round(e) ==
            LET idx == SelectSeq(DispatchOrder(new), LAMBDA i : n(i) >= e)
            IN [k \in DOMAIN idx |-> [analytic |-> idx[k], pos |-> Len(old[idx[k]]) + e]]
    IN Round(1) \o Round(2)

\* faulty variant: the measurements are collected from the last analytic to the first
FilterMapSome_Reversed(rets) ==
    LET kept == SelectSeq([i \in DOMAIN rets |-> i], LAMBDA i : rets[i].some)
    IN [k \in DOMAIN kept |-> rets[kept[Len(kept) + 1 - k]].val]

\* the filter_map(..).collect() of lines 191-194
FilterMapSome(rets) ==
    LET kept == SelectSeq([i \in DOMAIN rets |-> i], LAMBDA i : rets[i].some)
    IN [k \in DOMAIN kept |-> rets[kept[k]].val]

\* faulty variant: find_map instead of filter_map, the iteration stops at the first
\* analytic that returns a measurement
Analytics_end_milestone_FindMap(an, ctx) ==
    LET rets == [i \in DOMAIN an |-> DynAnalytics_end_milestone(i, an[i], ctx)]
        called(i) == \A j \in 1..(i - 1) : ~rets[j].some
    IN [analytics |->
           [i \in DOMAIN an |->
               IF called(i)
               THEN Append(an[i], [ev |-> "end_milestone", ctx |-> ctx, ret |-> rets[i]])
               ELSE an[i]],
        measurement |->
           Some(FilterMapSome([i \in DOMAIN an |->
                                 IF called(i) THEN rets[i] ELSE None]))]

Analytics_end_milestone(an, ctx) ==
    LET rets == [i \in DOMAIN an |-> DynAnalytics_end_milestone(i, an[i], ctx)]
    IN [analytics |->
           [i \in DOMAIN an |->
               Append(an[i], [ev |-> "end_milestone", ctx |-> ctx, ret |-> rets[i]])],
        measurement |-> Some(FilterMapSome(rets))]

\* ------------------------------------------------------------- the driver
\* faulty variant: the inclusion state is not tested
IsIncludedTransaction_AnyInclusion(block_data) ==
    block_data.block.payload.kind = "Transaction"

\* the test of lines 248-249
IsIncludedTransaction(block_data) ==
    /\ block_data.metadata.inclusion_state = "Included"
    /\ block_data.block.payload.kind = "Transaction"

\* the filter_map of lines 253-256: the output ids of the UTXO inputs
UtxoInputs(inputs) ==
    LET utxo == SelectSeq(inputs, LAMBDA input : input.kind = "Utxo")
    IN [k \in DOMAIN utxo |-> utxo[k].output_id]

\* faulty variant: an input that does not resolve is skipped
ResolveConsumed_SkipMissing(lu, inputs, milestone_index) ==
    LET ids == SelectSeq(UtxoInputs(inputs), LAMBDA id : get_consumed(lu, id).some)
    IN Ok([k \in DOMAIN ids |-> get_consumed(lu, ids[k]).val])

ResolveConsumed(lu, inputs, milestone_index) ==
    LET ids == UtxoInputs(inputs)
    IN Collect([k \in DOMAIN ids |->
                  IF get_consumed(lu, ids[k]).some
                  THEN Ok(get_consumed(lu, ids[k]).val)
                  ELSE Err(MissingLedgerSpent(to_hex(ids[k]), milestone_index))])

\* faulty variant: the output index starts at 1
ResolveCreated_IndexFromOne(lu, payload, milestone_index) ==
    Collect([k \in DOMAIN payload.outputs |->
               LET output_id == <<payload.transaction_id, k>>
               IN IF get_created(lu, output_id).some
                  THEN Ok(get_created(lu, output_id).val)
                  ELSE Err(MissingLedgerOutput(to_hex(output_id), milestone_index))])

ResolveCreated(lu, payload, milestone_index) ==
    Collect([k \in DOMAIN payload.outputs |->
               LET output_id == <<payload.transaction_id, k - 1>>
               IN IF get_created(lu, output_id).some
                  THEN Ok(get_created(lu, output_id).val)
                  ELSE Err(MissingLedgerOutput(to_hex(output_id), milestone_index))])

\* faulty variant: handle_block is delivered before handle_transaction
DispatchTransactionBlock_BlockFirst(an, consumed, created, block_data, ctx) ==
    Analytics_handle_transaction(
        Analytics_handle_block(an, block_data, ctx),
        consumed, created, ctx, block_data.block.block_id)

\* lines 283 and 286 for an included transaction
DispatchTransactionBlock(an, consumed, created, block_data, ctx) ==
    Analytics_handle_block(
        Analytics_handle_transaction(an, consumed, created, ctx,
                                     block_data.block.block_id),
        block_data, ctx)

\* faulty variant: handle_block is delivered on entry, handle_transaction once the
\* outputs are resolved
Milestone_handle_block_BlockOnEntry(an, lu, block_data, ctx) ==
    LET entered == Analytics_handle_block(an, block_data, ctx)
    IN  IF IsIncludedTransaction(block_data)
        THEN LET payload == block_data.block.payload
                 milestone_index == block_data.metadata.referenced_by_milestone_index
                 consumed == ResolveConsumed(lu, payload.inputs, milestone_index)
                 created == ResolveCreated(lu, payload, milestone_index)
             IN  IF ~consumed.ok THEN [analytics |-> entered, res |-> consumed]
                 ELSE IF ~created.ok THEN [analytics |-> entered, res |-> created]
                 ELSE [analytics |->
                          Analytics_handle_transaction(entered, consumed.val, created.val,
                                                       ctx, block_data.block.block_id),
                       res |-> Ok("unit")]
        ELSE [analytics |-> entered, res |-> Ok("unit")]

\* faulty variant: a block that is not included is not delivered to the analytics
Milestone_handle_block_SkipExcluded(an, lu, block_data, ctx) ==
    IF IsIncludedTransaction(block_data)
    THEN LET payload == block_data.block.payload
             milestone_index == block_data.metadata.referenced_by_milestone_index
             consumed == ResolveConsumed(lu, payload.inputs, milestone_index)
             created == ResolveCreated(lu, payload, milestone_index)
         IN  IF ~consumed.ok THEN [analytics |-> an, res |-> consumed]
             ELSE IF ~created.ok THEN [analytics |-> an, res |-> created]
             ELSE [analytics |->
                      DispatchTransactionBlock(an, consumed.val, created.val,
                                               block_data, ctx),
                   res |-> Ok("unit")]
    ELSE [analytics |->
             IF block_data.metadata.inclusion_state = "Included"
             THEN Analytics_handle_block(an, block_data, ctx)
             ELSE an,
          res |-> Ok("unit")]

\* faulty variant: a created output that does not resolve is reported before
\* an input that does not
Milestone_handle_block_CreatedFirst(an, lu, block_data, ctx) ==
    IF IsIncludedTransaction(block_data)
    THEN LET payload == block_data.block.payload
             milestone_index == block_data.metadata.referenced_by_milestone_index
             consumed == ResolveConsumed(lu, payload.inputs, milestone_index)
             created == ResolveCreated(lu, payload, milestone_index)
         IN  IF ~created.ok THEN [analytics |-> an, res |-> created]
             ELSE IF ~consumed.ok THEN [analytics |-> an, res |-> consumed]
             ELSE [analytics |->
                      DispatchTransactionBlock(an, consumed.val, created.val,
                                               block_data, ctx),
                   res |-> Ok("unit")]
    ELSE [analytics |-> Analytics_handle_block(an, block_data, ctx),
          res |-> Ok("unit")]

\* Milestone::handle_block: the analytics afterwards and the Result returned
Milestone_handle_block(an, lu, block_data, ctx) ==
    IF IsIncludedTransaction(block_data)
    THEN LET payload == block_data.block.payload
             milestone_index == block_data.metadata.referenced_by_milestone_index
             consumed == ResolveConsumed(lu, payload.inputs, milestone_index)
             created == ResolveCreated(lu, payload, milestone_index)
         IN  IF ~consumed.ok THEN [analytics |-> an, res |-> consumed]
             ELSE IF ~created.ok THEN [analytics |-> an, res |-> created]
             ELSE [analytics |->
                      DispatchTransactionBlock(an, consumed.val, created.val,
                                               block_data, ctx),
                   res |-> Ok("unit")]
    ELSE [analytics |-> Analytics_handle_block(an, block_data, ctx),
          res |-> Ok("unit")]

VARIABLES
    analytics,       \* the analytics list: per analytic, the events received
    pc,              \* where the driver is: idle, streaming, writing, returned
    run,             \* invocations of update_analytics so far
    at,              \* milestone index of the Milestone being processed
    ledger_updates,  \* the LedgerUpdateStore of the Milestone
    cone,            \* the blocks the cone stream has yielded in this run
    result,          \* the Result update_analytics returned
    inserts,         \* the insert_measurement calls made, with their outcome
    before,          \* the analytics as they were when this run began
    returns,         \* per finished run: milestone, Result, cone
    steps,           \* invocations made plus blocks streamed so far
    calls,           \* every call made on an analytic, in the order made
    \* MongoDb::update_interval_analytics
    iv_pc,           \* where the interval driver is: idle, querying, writing, returned
    iv_args,         \* start and interval of the invocation
    iv_k,            \* position in the list of the analytic being handled
    iv_calls,        \* the handle_date_range calls of this invocation
    iv_inserts,      \* the insert_measurement calls of this invocation
    iv_result,       \* the Result update_interval_analytics returned
    \* ActiveAddresses
    active_addresses,  \* the fields of the struct
    aa_snapshot,       \* the arguments init was called with
    aa_trace,          \* the calls made on it since, with what they returned
    \* AnalyticsInterval::to_duration and end_date
    cal_start,         \* the start date of the slot at hand
    cal_interval,      \* the interval kind
    cal_slots,         \* the slots computed so far: start, duration, end date
    \* the paginated handlers of the indexer and explorer routes
    pg_handler,        \* the handler the client talks to
    pg_records,        \* the matching records of the store, in store order
    pg_page_size,      \* the page size of the requests
    pg_cursor,         \* the cursor of the next request
    pg_pages,          \* the requests served so far, with their responses
    \* the outputs collection of MongoDb
    out_docs,          \* the OutputDocument stored under each output id, if any
    out_writes,        \* the upsert_output_with_metadata calls made, in order
    out_pc,            \* where get_output_and_metadata is: idle, get_output,
                       \* get_output_metadata, returned
    out_call,          \* its output id and what its queries have found so far
    out_result,        \* the Result it returned
    \* the Auth extractor
    au_config,         \* ApiConfigData: public_routes, jwt_secret_key
    au_request,        \* the request parts of the last request
    au_result          \* what from_request_parts returned for it

milestoneVars == <<analytics, pc, run, at, ledger_updates, cone, result, inserts,
                   before, returns, calls>>
intervalVars == <<iv_pc, iv_args, iv_k, iv_calls, iv_inserts, iv_result>>
addressVars == <<active_addresses, aa_snapshot, aa_trace>>
calendarVars == <<cal_start, cal_interval, cal_slots>>
pageVars == <<pg_handler, pg_records, pg_page_size, pg_cursor, pg_pages>>
outputVars == <<out_docs, out_writes, out_pc, out_call, out_result>>
authVars == <<au_config, au_request, au_result>>
apiVars == <<pageVars, outputVars, authVars>>

vars == <<milestoneVars, intervalVars, addressVars, calendarVars, apiVars, steps>>

\* the AnalyticsContext handed to the analytics: the Milestone itself
Ctx == [at |-> at, milestone |-> run]

\* no invocation of update_interval_analytics yet
IntervalIdle ==
    /\ iv_pc = "idle"
    /\ iv_args = None
    /\ iv_k = 0
    /\ iv_calls = <<>>
    /\ iv_inserts = <<>>
    /\ iv_result = Ok("none")

\* an ActiveAddresses over an empty snapshot that is never called
AddressesIdle ==
    /\ aa_snapshot = [start_time |-> 0, interval |-> 1, unspent_outputs |-> {}]
    /\ active_addresses = [start_time |-> 0, interval |-> 1, addresses |-> {},
                           flush |-> None]
    /\ aa_trace = <<>>

\* no slot computed; a start date and an interval kind as the interval driver
\* is given them
CalendarIdle ==
    /\ cal_start = [year |-> 2024, month |-> 2, day |-> 1]
    /\ cal_interval = "Day"
    /\ cal_slots = <<>>

\* no request made to a paginated handler
PagesIdle ==
    /\ pg_handler = "milestones"
    /\ pg_records = <<>>
    /\ pg_page_size = 1
    /\ pg_cursor = None
    /\ pg_pages = <<>>

\* an empty outputs collection that is neither written nor read
OutputsIdle ==
    /\ out_docs = <<>>
    /\ out_writes = <<>>
    /\ out_pc = "idle"
    /\ out_call = None
    /\ out_result = Ok("none")

\* an API without public routes that gets no request
AuthIdle ==
    /\ au_config = [public_routes |-> {}, jwt_secret_key |-> "secret"]
    /\ au_request = None
    /\ au_result = [ret |-> Ok("none"), header_examined |-> FALSE]

ApiIdle == PagesIdle /\ OutputsIdle /\ AuthIdle

MilestoneInit ==
    /\ analytics = [i \in 1..NumAnalytics |-> <<>>]
    /\ pc = "idle"
    /\ run = 0
    /\ at = FirstMilestone
    /\ ledger_updates \in LedgerUpdateStores
    /\ cone = <<>>
    /\ result = Ok("none")
    /\ inserts = <<>>
    /\ before = [i \in 1..NumAnalytics |-> <<>>]
    /\ returns = <<>>
    /\ steps = 0
    /\ calls = <<>>

Init == MilestoneInit /\ IntervalIdle /\ AddressesIdle /\ CalendarIdle /\ ApiIdle

\* update_analytics returns r: the caller sees the Result
Return(r, c) ==
    /\ pc' = "returned"
    /\ result' = r
    /\ returns' = Append(returns, [milestone |-> at, result |-> r, cone |-> c])

\* The caller invokes update_analytics and cone_stream() is opened (line 236).
\* The caller awaits each invocation before the next; it goes on to the next
\* milestone after Ok and re-invokes the same milestone after an error, with
\* the ledger update store as it was or repaired.
BeginMilestone ==
    /\ pc \in {"idle", "returned"}
    /\ steps < MaxSteps
    /\ steps' = steps + 1
    /\ run' = run + 1
    /\ at' = IF pc = "returned" /\ result.ok THEN at + 1 ELSE at
    /\ \E lu \in {ledger_updates, Repaired} : ledger_updates' = lu
    /\ cone' = <<>>
    /\ before' = analytics
    /\ pc' = "streaming"
    /\ UNCHANGED <<analytics, result, inserts, returns, calls>>
    /\ UNCHANGED <<intervalVars, addressVars, calendarVars, apiVars>>

\* faulty variant: on an error of handle_block the driver still ends the milestone
\* and writes the measurements before it returns the error
NextBlock_FlushOnError ==
    /\ pc = "streaming"
    /\ steps < MaxSteps
    /\ \E payload \in Payloads, inclusion_state \in InclusionStates :
        LET block_data == BlockData(Len(cone) + 1, payload, inclusion_state, at)
            h == Milestone_handle_block(analytics, ledger_updates, block_data, Ctx)
            e == Analytics_end_milestone(h.analytics, Ctx)
        IN  /\ cone' = Append(cone, block_data)
            /\ IF h.res.ok
               THEN /\ analytics' = h.analytics
                    /\ UNCHANGED <<pc, result, returns, inserts>>
               ELSE /\ analytics' = e.analytics
                    /\ inserts' = Append(inserts,
                           [milestone |-> run, status |-> "accepted",
                            measurement |-> [at |-> at, inner |-> e.measurement.val]])
                    /\ Return(h.res, Append(cone, block_data))
    /\ calls' = calls \o Delivered(analytics, analytics')
    /\ steps' = steps + 1
    /\ UNCHANGED <<run, at, ledger_updates, before>>
    /\ UNCHANGED <<intervalVars, addressVars, calendarVars, apiVars>>

\* cone_stream.try_next() yields a block and handle_block runs (lines 238-239)
NextBlock ==
    /\ pc = "streaming"
    /\ steps < MaxSteps
    /\ \E payload \in Payloads, inclusion_state \in InclusionStates :
        LET block_data == BlockData(Len(cone) + 1, payload, inclusion_state, at)
            h == Milestone_handle_block(analytics, ledger_updates, block_data, Ctx)
        IN  /\ cone' = Append(cone, block_data)
            /\ analytics' = h.analytics
            /\ IF h.res.ok
               THEN UNCHANGED <<pc, result, returns>>
               ELSE Return(h.res, Append(cone, block_data))
    /\ calls' = calls \o Delivered(analytics, analytics')
    /\ steps' = steps + 1
    /\ UNCHANGED <<run, at, ledger_updates, inserts, before>>
    /\ UNCHANGED <<intervalVars, addressVars, calendarVars, apiVars>>

\* cone_stream.try_next() yields an error (line 238)
ConeStreamError ==
    /\ pc = "streaming"
    /\ Return(Err([kind |-> "ConeStream"]), cone)
    /\ UNCHANGED <<analytics, run, at, ledger_updates, cone, inserts, before, steps,
                   calls>>
    /\ UNCHANGED <<intervalVars, addressVars, calendarVars, apiVars>>

\* faulty variant: the write is not awaited, update_analytics returns at once
AfterInsertCall_NotAwaited == "returned"

\* where the driver is once it has called insert_measurement (line 292):
\* it awaits the answer of the sink
AfterInsertCall == "writing"

\* the cone is exhausted: end_milestone on the analytics, then the call of
\* insert_measurement (lines 242, 291-292)
EndMilestone ==
    /\ pc = "streaming"
    /\ LET e == Analytics_end_milestone(analytics, Ctx)
       IN  /\ analytics' = e.analytics
           /\ inserts' = Append(inserts,
                  [milestone |-> run, status |-> "pending",
                   measurement |-> [at |-> at, inner |-> e.measurement.val]])
    /\ calls' = calls \o Delivered(analytics, analytics')
    /\ IF AfterInsertCall = "writing"
       THEN pc' = "writing" /\ UNCHANGED <<result, returns>>
       ELSE Return(Ok("unit"), cone)
    /\ UNCHANGED <<run, at, ledger_updates, cone, before, steps>>
    /\ UNCHANGED <<intervalVars, addressVars, calendarVars, apiVars>>

\* faulty variant: the write is done and the driver awaiting it is not woken
SinkAccept_NoWake ==
    /\ \E k \in DOMAIN inserts :
        /\ inserts[k].status = "pending"
        /\ inserts' = [inserts EXCEPT ![k].status = "accepted"]
    /\ UNCHANGED <<pc, result, returns>>
    /\ UNCHANGED <<analytics, run, at, ledger_updates, cone, before, steps, calls>>
    /\ UNCHANGED <<intervalVars, addressVars, calendarVars, apiVars>>

\* the sink answers an insert_measurement call: the write is done
SinkAccept ==
    /\ \E k \in DOMAIN inserts :
        /\ inserts[k].status = "pending"
        /\ inserts' = [inserts EXCEPT ![k].status = "accepted"]
        /\ IF pc = "writing" /\ inserts[k].milestone = run
           THEN Return(Ok("unit"), cone)
           ELSE UNCHANGED <<pc, result, returns>>
    /\ UNCHANGED <<analytics, run, at, ledger_updates, cone, before, steps, calls>>
    /\ UNCHANGED <<intervalVars, addressVars, calendarVars, apiVars>>

\* the sink answers an insert_measurement call: the write is rejected
SinkReject ==
    /\ \E k \in DOMAIN inserts :
        /\ inserts[k].status = "pending"
        /\ inserts' = [inserts EXCEPT ![k].status = "rejected"]
        /\ IF pc = "writing" /\ inserts[k].milestone = run
           THEN Return(Err([kind |-> "Sink"]), cone)
           ELSE UNCHANGED <<pc, result, returns>>
    /\ UNCHANGED <<analytics, run, at, ledger_updates, cone, before, steps, calls>>
    /\ UNCHANGED <<intervalVars, addressVars, calendarVars, apiVars>>

Next ==
    \/ BeginMilestone
    \/ NextBlock
    \/ ConeStreamError
    \/ EndMilestone
    \/ SinkAccept
    \/ SinkReject

Spec == Init /\ [][Next]_vars

\* ------------------------------------------------ vocabulary of the claims
\* the Result is one of the two resolution errors of AnalyticsError
IsResolutionError(res) ==
    /\ ~res.ok
    /\ res.err.kind \in {"MissingLedgerSpent", "MissingLedgerOutput"}

\* the run in progress was aborted by a resolution error
Aborted == pc = "returned" /\ IsResolutionError(result)

\* block k of the cone has been handled and handle_block returned Ok
Handled(k) == k \in DOMAIN cone /\ (k < Len(cone) \/ ~Aborted)

CarriesIncludedTransaction(block_data) ==
    /\ block_data.metadata.inclusion_state = "Included"
    /\ block_data.block.payload.kind = "Transaction"

\* the cone of run r
ConeOf(r) == IF r \in DOMAIN returns THEN returns[r].cone ELSE cone

\* the events analytic i received from run r, in the order received
RunEvents(i, r) == SelectSeq(analytics[i], LAMBDA e : e.ctx.milestone = r)

\* the blocks analytic i was handed by handle_block in run r, in order
BlocksHandled(i, r) ==
    LET es == SelectSeq(analytics[i],
                        LAMBDA e : e.ev = "handle_block" /\ e.ctx.milestone = r)
    IN [k \in DOMAIN es |-> es[k].block_data]

\* positions of the events of block k of the run in progress in the log of i
TransactionEvents(i, k) ==
    { p \in DOMAIN analytics[i] :
        /\ analytics[i][p].ev = "handle_transaction"
        /\ analytics[i][p].ctx.milestone = run
        /\ analytics[i][p].of_block = k }
BlockEvents(i, k) ==
    { p \in DOMAIN analytics[i] :
        /\ analytics[i][p].ev = "handle_block"
        /\ analytics[i][p].ctx.milestone = run
        /\ analytics[i][p].block_data.block.block_id = k }

\* positions of the UTXO inputs of a payload the store does not resolve
UnresolvedInputs(payload) ==
    { p \in DOMAIN payload.inputs :
        /\ payload.inputs[p].kind = "Utxo"
        /\ payload.inputs[p].output_id \notin ledger_updates.consumed }
\* indices (from 0) of the outputs of a payload the store does not resolve
UnresolvedOutputs(payload) ==
    { j \in 0..(Len(payload.outputs) - 1) :
        <<payload.transaction_id, j>> \notin ledger_updates.created }

Min(S) == CHOOSE x \in S : \A y \in S : x <= y

\* the LedgerSpent records of the UTXO inputs, in input order
ExpectedConsumed(payload) ==
    LET P == { p \in DOMAIN payload.inputs : payload.inputs[p].kind = "Utxo" }
        nth(n) == CHOOSE p \in P : Cardinality({ q \in P : q <= p }) = n
    IN [n \in 1..Cardinality(P) |-> LedgerSpent(payload.inputs[nth(n)].output_id)]
\* the LedgerOutput records of (transaction_id, 0), (transaction_id, 1), ...
ExpectedCreated(payload) ==
    [n \in 1..Len(payload.outputs) |-> LedgerOutput(<<payload.transaction_id, n - 1>>)]

\* ------------------------------------------------------------------ claims

\* C1: a run of update_analytics that fails on a resolution error calls
\* end_milestone on no analytic and insert_measurement not at all, wherever in
\* the cone the failing block is.
C1_AbortWithoutEmission ==
    \A r \in DOMAIN returns :
        IsResolutionError(returns[r].result) =>
            /\ \A i \in DOMAIN analytics : \A p \in DOMAIN analytics[i] :
                  ~(/\ analytics[i][p].ev = "end_milestone"
                    /\ analytics[i][p].ctx.milestone = r)
            /\ \A k \in DOMAIN inserts : inserts[k].milestone # r

C1_Witness ==
    \E r \in DOMAIN returns :
        /\ IsResolutionError(returns[r].result)
        /\ Len(returns[r].cone) = 2
        /\ \E i \in DOMAIN analytics : \E p \in DOMAIN analytics[i] :
              analytics[i][p].ctx.milestone = r

\* C2 (as claimed): after an abort on a resolution error every analytic is in
\* the state it had before the run began.
C2_StateRestoredOnAbort ==
    Aborted => analytics = before

\* C3: for a handled block with an included transaction every analytic
\* receives handle_transaction of the block and, as the very next event,
\* handle_block of the block.
C3_TransactionThenBlock ==
    \A k \in DOMAIN cone :
        (CarriesIncludedTransaction(cone[k]) /\ Handled(k)) =>
            \A i \in DOMAIN analytics :
                \E p \in DOMAIN analytics[i] :
                    /\ p \in TransactionEvents(i, k)
                    /\ p + 1 \in BlockEvents(i, k)
                    /\ analytics[i][p + 1].block_data = cone[k]

C3_Witness ==
    \E k \in DOMAIN cone :
        /\ CarriesIncludedTransaction(cone[k])
        /\ Handled(k)
        /\ Len(cone) = 2
        /\ TransactionEvents(1, k) # {}

\* C4 (as claimed): handle_transaction comes after handle_block of the block
\* that carries the transaction.
C4_TransactionAfterBlock ==
    \A i \in DOMAIN analytics : \A p \in DOMAIN analytics[i] :
        analytics[i][p].ev = "handle_transaction" =>
            \E q \in 1..(p - 1) :
                /\ analytics[i][q].ev = "handle_block"
                /\ analytics[i][q].ctx = analytics[i][p].ctx
                /\ analytics[i][q].block_data.block.block_id = analytics[i][p].of_block

\* C4 (amended): handle_transaction comes before handle_block of the block
\* that carries the transaction: no handle_block of that block precedes it
\* and one follows it.
C4_TransactionBeforeBlock ==
    \A i \in DOMAIN analytics : \A p \in DOMAIN analytics[i] :
        analytics[i][p].ev = "handle_transaction" =>
            /\ \A q \in 1..(p - 1) :
                  ~(/\ analytics[i][q].ev = "handle_block"
                    /\ analytics[i][q].ctx = analytics[i][p].ctx
                    /\ analytics[i][q].block_data.block.block_id = analytics[i][p].of_block)
            /\ \E q \in (p + 1)..Len(analytics[i]) :
                  /\ analytics[i][q].ev = "handle_block"
                  /\ analytics[i][q].ctx = analytics[i][p].ctx
                  /\ analytics[i][q].block_data.block.block_id = analytics[i][p].of_block

C4_Witness ==
    \E p \in DOMAIN analytics[NumAnalytics] :
        /\ analytics[NumAnalytics][p].ev = "handle_transaction"
        /\ p > 1

\* C5: in a run that returns Ok (and in one that has exhausted its cone) every
\* analytic was handed by handle_block exactly the blocks of the cone, each
\* once, in cone order, whatever their inclusion state and payload.
C5_EveryBlockOnceInOrder ==
    /\ \A r \in DOMAIN returns :
          returns[r].result.ok =>
              \A i \in DOMAIN analytics : BlocksHandled(i, r) = returns[r].cone
    /\ pc = "writing" =>
          \A i \in DOMAIN analytics : BlocksHandled(i, run) = cone

C5_Witness ==
    \E r \in DOMAIN returns :
        /\ returns[r].result.ok
        /\ Len(returns[r].cone) = 2
        /\ returns[r].cone[1].metadata.inclusion_state = "Conflicting"
        /\ returns[r].cone[2].metadata.inclusion_state = "NoTransaction"
        /\ returns[r].cone[2].block.payload.kind = "None"

\* C6: a handled block causes handle_transaction exactly when it is Included
\* and carries a transaction: then once per analytic, with the LedgerSpent
\* records of its UTXO inputs in input order and the LedgerOutput records of
\* its outputs in index order; any other block causes none.
C6_TransactionIffIncluded ==
    \A k \in DOMAIN cone : \A i \in DOMAIN analytics :
        IF CarriesIncludedTransaction(cone[k]) /\ Handled(k)
        THEN /\ Cardinality(TransactionEvents(i, k)) = 1
             /\ \A p \in TransactionEvents(i, k) :
                   /\ analytics[i][p].consumed = ExpectedConsumed(cone[k].block.payload)
                   /\ analytics[i][p].created = ExpectedCreated(cone[k].block.payload)
        ELSE TransactionEvents(i, k) = {}

C6_Witness ==
    \E k \in DOMAIN cone : \E n \in DOMAIN cone :
        /\ CarriesIncludedTransaction(cone[k])
        /\ Handled(k)
        /\ TransactionEvents(1, k) # {}
        /\ cone[n].block.payload.kind = "Transaction"
        /\ cone[n].metadata.inclusion_state = "Conflicting"

\* C7: an included transaction with a UTXO input the store does not resolve
\* makes the run fail with MissingLedgerSpent carrying the id of the first
\* such input; the block causes no handle_transaction and no handle_block, and
\* it is the last block taken from the cone.
C7_MissingSpentAborts ==
    \A k \in DOMAIN cone :
        LET payload == cone[k].block.payload
        IN  (CarriesIncludedTransaction(cone[k]) /\ UnresolvedInputs(payload) # {}) =>
                /\ pc = "returned"
                /\ ~result.ok
                /\ result.err =
                      MissingLedgerSpent(
                          to_hex(payload.inputs[Min(UnresolvedInputs(payload))].output_id),
                          at)
                /\ k = Len(cone)
                /\ \A i \in DOMAIN analytics :
                      TransactionEvents(i, k) = {} /\ BlockEvents(i, k) = {}

C7_Witness ==
    /\ Len(cone) = 2
    /\ CarriesIncludedTransaction(cone[2])
    /\ Cardinality(UnresolvedInputs(cone[2].block.payload)) = 1
    /\ pc = "returned"
    /\ Len(analytics[1]) > 0

\* C8: an included transaction whose UTXO inputs all resolve and one of whose
\* output ids the store does not resolve makes the run fail with
\* MissingLedgerOutput carrying the id of the first such output; the block
\* causes no handle_transaction and no handle_block.
C8_MissingOutputAborts ==
    \A k \in DOMAIN cone :
        LET payload == cone[k].block.payload
        IN  (/\ CarriesIncludedTransaction(cone[k])
             /\ UnresolvedInputs(payload) = {}
             /\ UnresolvedOutputs(payload) # {}) =>
                /\ pc = "returned"
                /\ ~result.ok
                /\ result.err =
                      MissingLedgerOutput(
                          to_hex(<<payload.transaction_id, Min(UnresolvedOutputs(payload))>>),
                          at)
                /\ \A i \in DOMAIN analytics :
                      TransactionEvents(i, k) = {} /\ BlockEvents(i, k) = {}

C8_Witness ==
    /\ Len(cone) = 2
    /\ CarriesIncludedTransaction(cone[2])
    /\ UnresolvedInputs(cone[2].block.payload) = {}
    /\ UnresolvedOutputs(cone[2].block.payload) = {1}
    /\ pc = "returned"
    /\ Len(analytics[1]) > 0

\* C9: in every run each analytic receives end_milestone at most once, as the
\* last event of the run and after handle_block of every block of the cone;
\* in a run that returns Ok it receives it exactly once.
C9_EndMilestoneLast ==
    \A i \in DOMAIN analytics : \A r \in 1..run :
        LET es == RunEvents(i, r)
            ends == { p \in DOMAIN es : es[p].ev = "end_milestone" }
        IN  /\ Cardinality(ends) <= 1
            /\ \A p \in ends :
                  /\ p = Len(es)
                  /\ Len(BlocksHandled(i, r)) = Len(ConeOf(r))
            /\ (r \in DOMAIN returns /\ returns[r].result.ok) =>
                  Cardinality(ends) = 1

C9_Witness ==
    \E r \in DOMAIN returns :
        /\ returns[r].result.ok
        /\ Len(returns[r].cone) = 2
        /\ Len(RunEvents(NumAnalytics, r)) >= 3

\* C10: with each invocation awaited before the next, the events of a
\* milestone precede those of every later milestone in each analytic, and
\* while a sink write of a milestone is unanswered no analytic has an event of
\* a later milestone.
C10_MilestonesInOrder ==
    /\ \A i \in DOMAIN analytics : \A p \in DOMAIN analytics[i] :
          \A q \in p..Len(analytics[i]) :
              analytics[i][p].ctx.at <= analytics[i][q].ctx.at
    /\ \A k \in DOMAIN inserts :
          inserts[k].status = "pending" =>
              \A i \in DOMAIN analytics : \A p \in DOMAIN analytics[i] :
                  analytics[i][p].ctx.at <= inserts[k].measurement.at

C10_Witness ==
    /\ \E p \in DOMAIN analytics[1] : analytics[1][p].ctx.at = FirstMilestone
    /\ \E p \in DOMAIN analytics[1] : analytics[1][p].ctx.at = FirstMilestone + 1
    /\ \E k \in DOMAIN inserts :
          /\ inserts[k].status = "accepted"
          /\ inserts[k].measurement.at = FirstMilestone

\* ---------------------------------------------------- claims on the fan-out
\* the runs of update_analytics that returned Ok
OkRuns == { r \in DOMAIN returns : returns[r].result.ok }

\* the insert_measurement calls made by run r
InsertsOf(r) == { k \in DOMAIN inserts : inserts[k].milestone = r }

\* what end_milestone of analytic i returned in run r, one entry per call
EndReturns(i, r) ==
    LET es == SelectSeq(analytics[i],
                        LAMBDA e : e.ev = "end_milestone" /\ e.ctx.milestone = r)
    IN [k \in DOMAIN es |-> es[k].ret]

\* the analytics whose end_milestone returned a measurement in run r
Emitters(r) ==
    { i \in DOMAIN analytics :
        \E k \in DOMAIN EndReturns(i, r) : EndReturns(i, r)[k].some }

\* the measurements the analytics returned in run r, in the order of the list
ExpectedBatch(r) ==
    LET E == Emitters(r)
        nth(n) == CHOOSE i \in E : Cardinality({ j \in E : j <= i }) = n
    IN [n \in 1..Cardinality(E) |-> EndReturns(nth(n), r)[1].val]

\* C11: a milestone processed with success has exactly one insert_measurement
\* call; its batch holds one measurement per analytic whose end_milestone
\* returned one, in the order of the list, each stamped with the milestone's
\* own index and timestamp; an analytic that returned nothing adds nothing.
C11_OneBatchPerMilestone ==
    \A r \in OkRuns :
        /\ Cardinality(InsertsOf(r)) = 1
        /\ \A i \in DOMAIN analytics : Len(EndReturns(i, r)) = 1
        /\ \A k \in InsertsOf(r) :
            /\ inserts[k].measurement.at = returns[r].milestone
            /\ inserts[k].measurement.inner = ExpectedBatch(r)
            /\ \A n \in DOMAIN inserts[k].measurement.inner :
                   inserts[k].measurement.inner[n].at = returns[r].milestone

\* two milestones processed with success: in one an analytic suppressed its
\* measurement, in the other at least two analytics emitted
C11_Witness ==
    /\ \E r \in OkRuns : Emitters(r) # {} /\ Emitters(r) # DOMAIN analytics
    /\ \E r \in OkRuns : Cardinality(Emitters(r)) >= 2

\* an event without what the analytic returned: its arguments and its context
Arguments(e) == IF e.ev = "end_milestone" THEN [ev |-> e.ev, ctx |-> e.ctx] ELSE e

\* the event call p delivered
EventOf(p) == analytics[calls[p].analytic][calls[p].pos]


\* C12: every event dispatched to the list (handle_block, handle_transaction,
\* end_milestone) reaches every analytic of the list exactly once, the
\* analytics being called in the order of the list, all with the same
\* arguments and the same context; no analytic is skipped or called twice.
C12_FanOutToEveryAnalytic ==
    LET N == Len(analytics)
    IN  /\ Len(calls) % N = 0
        \* the calls come in groups of N, one call per analytic in list order,
        \* the g-th group delivering the g-th event of every analytic
        /\ \A p \in DOMAIN calls :
            /\ calls[p].analytic = ((p - 1) % N) + 1
            /\ calls[p].pos = ((p - 1) \div N) + 1
            /\ calls[p].pos \in DOMAIN analytics[calls[p].analytic]
            /\ Arguments(EventOf(p)) = Arguments(EventOf(p - ((p - 1) % N)))
        \* and an analytic has received nothing but these
        /\ \A i \in DOMAIN analytics : Len(analytics[i]) * N = Len(calls)

\* the three kinds of event have been dispatched to a list of several analytics
C12_Witness ==
    /\ Len(analytics) >= 2
    /\ \A kind \in {"handle_block", "handle_transaction", "end_milestone"} :
           \E p \in DOMAIN calls : EventOf(p).ev = kind /\ calls[p].analytic = 2

\* ------------------------------------------------------ the interval driver
NumIntervalAnalytics == 2

\* enum AnalyticsInterval
AnalyticsIntervals == {"Day", "Week", "Month", "Year"}

\* the start dates update_interval_analytics is invoked with
StartDates ==
    { [year |-> 2024, month |-> 2, day |-> 1],
      [year |-> 2023, month |-> 12, day |-> 25] }

\* DynIntervalAnalytics::handle_date_range of analytic k, when the query
\* succeeds: the measurement wrapped in PerInterval
PerInterval(k, start_date, interval) ==
    [start_date |-> start_date, interval |-> interval, inner |-> [analytic |-> k]]

\* update_interval_analytics returns r
IntervalReturn(r) ==
    /\ iv_pc' = "returned"
    /\ iv_result' = r

\* the loop calls handle_date_range on analytic k (line 308)
CallHandleDateRange(log, k) ==
    /\ iv_k' = k
    /\ iv_calls' = Append(log, [analytic |-> k, start_date |-> iv_args'.start,
                                interval |-> iv_args'.interval])
    /\ iv_pc' = "querying"

\* update_interval_analytics is invoked; the caller awaits each invocation
\* before the next.  The loop enters its first iteration.
UpdateIntervalAnalytics ==
    /\ iv_pc \in {"idle", "returned"}
    /\ steps < MaxSteps
    /\ steps' = steps + 1
    /\ \E start \in StartDates, interval \in AnalyticsIntervals :
           iv_args' = [start |-> start, interval |-> interval]
    /\ iv_inserts' = <<>>
    /\ IF NumIntervalAnalytics = 0
       THEN IntervalReturn(Ok("unit")) /\ iv_k' = 0 /\ iv_calls' = <<>>
       ELSE CallHandleDateRange(<<>>, 1) /\ UNCHANGED iv_result
    /\ UNCHANGED <<milestoneVars, addressVars, calendarVars, apiVars>>

\* faulty variant: the measurement is also filed with the writes of the
\* milestone run in progress
HandleDateRangeOk_IntoMilestoneWrites ==
    /\ iv_pc = "querying"
    /\ iv_inserts' = Append(iv_inserts,
           [analytic |-> iv_k, status |-> "pending",
            measurement |-> PerInterval(iv_k, iv_args.start, iv_args.interval)])
    /\ inserts' = Append(inserts,
           [milestone |-> run, status |-> "accepted",
            measurement |-> PerInterval(iv_k, iv_args.start, iv_args.interval)])
    /\ iv_pc' = "writing"
    /\ UNCHANGED <<iv_args, iv_k, iv_calls, iv_result>>
    /\ UNCHANGED <<analytics, pc, run, at, ledger_updates, cone, result, before,
                   returns, calls>>
    /\ UNCHANGED <<addressVars, calendarVars, apiVars, steps>>

\* handle_date_range(..).await yields the measurement, which is handed to
\* insert_measurement (lines 307-308)
HandleDateRangeOk ==
    /\ iv_pc = "querying"
    /\ iv_inserts' = Append(iv_inserts,
           [analytic |-> iv_k, status |-> "pending",
            measurement |-> PerInterval(iv_k, iv_args.start, iv_args.interval)])
    /\ iv_pc' = "writing"
    /\ UNCHANGED <<iv_args, iv_k, iv_calls, iv_result>>
    /\ UNCHANGED <<milestoneVars, addressVars, calendarVars, apiVars, steps>>

\* handle_date_range(..).await yields an error: the first ? of line 308
HandleDateRangeErr ==
    /\ iv_pc = "querying"
    /\ IntervalReturn(Err([kind |-> "Query"]))
    /\ UNCHANGED <<iv_args, iv_k, iv_calls, iv_inserts>>
    /\ UNCHANGED <<milestoneVars, addressVars, calendarVars, apiVars, steps>>

\* faulty variant: the loop steps over the analytic after the one written
IntervalSinkAccept_SkipNext ==
    /\ iv_pc = "writing"
    /\ iv_inserts' = [iv_inserts EXCEPT ![Len(iv_inserts)].status = "accepted"]
    /\ IF iv_k + 1 < NumIntervalAnalytics
       THEN /\ UNCHANGED iv_args
            /\ CallHandleDateRange(iv_calls, iv_k + 2)
            /\ UNCHANGED iv_result
       ELSE IntervalReturn(Ok("unit")) /\ UNCHANGED <<iv_args, iv_k, iv_calls>>
    /\ UNCHANGED <<milestoneVars, addressVars, calendarVars, apiVars, steps>>

\* the sink accepts the write: the loop goes on to the next analytic, or
\* update_interval_analytics returns Ok(())
IntervalSinkAccept ==
    /\ iv_pc = "writing"
    /\ iv_inserts' = [iv_inserts EXCEPT ![Len(iv_inserts)].status = "accepted"]
    /\ IF iv_k < NumIntervalAnalytics
       THEN /\ UNCHANGED iv_args
            /\ CallHandleDateRange(iv_calls, iv_k + 1)
            /\ UNCHANGED iv_result
       ELSE IntervalReturn(Ok("unit")) /\ UNCHANGED <<iv_args, iv_k, iv_calls>>
    /\ UNCHANGED <<milestoneVars, addressVars, calendarVars, apiVars, steps>>

\* faulty variant: a rejected write is passed over and the loop goes on
IntervalSinkReject_Continue ==
    /\ iv_pc = "writing"
    /\ iv_inserts' = [iv_inserts EXCEPT ![Len(iv_inserts)].status = "rejected"]
    /\ IF iv_k < NumIntervalAnalytics
       THEN /\ UNCHANGED iv_args
            /\ CallHandleDateRange(iv_calls, iv_k + 1)
            /\ UNCHANGED iv_result
       ELSE IntervalReturn(Err([kind |-> "Sink"])) /\ UNCHANGED <<iv_args, iv_k, iv_calls>>
    /\ UNCHANGED <<milestoneVars, addressVars, calendarVars, apiVars, steps>>

\* the sink rejects the write: the second ? of line 309
IntervalSinkReject ==
    /\ iv_pc = "writing"
    /\ iv_inserts' = [iv_inserts EXCEPT ![Len(iv_inserts)].status = "rejected"]
    /\ IntervalReturn(Err([kind |-> "Sink"]))
    /\ UNCHANGED <<iv_args, iv_k, iv_calls>>
    /\ UNCHANGED <<milestoneVars, addressVars, calendarVars, apiVars, steps>>

\* the two drivers, each on its own task
NextDrivers ==
    \/ BeginMilestone
    \/ NextBlock
    \/ ConeStreamError
    \/ EndMilestone
    \/ SinkAccept
    \/ SinkReject
    \/ UpdateIntervalAnalytics
    \/ HandleDateRangeOk
    \/ HandleDateRangeErr
    \/ IntervalSinkAccept
    \/ IntervalSinkReject

\* both drivers idle, over a ledger update store that resolves every output
InitDrivers == Init /\ ledger_updates = Repaired

SpecDrivers == InitDrivers /\ [][NextDrivers]_vars

\* ---------------------------------------------- claims on the sink failures
\* C13: when the sink rejects a write, update_analytics returns an error for
\* that milestone; update_interval_analytics returns an error and neither
\* calls handle_date_range on the analytics that follow the failing one in the
\* list nor writes a measurement of theirs.
C13_SinkRejectionAborts ==
    /\ \A k \in DOMAIN inserts :
          inserts[k].status = "rejected" =>
             /\ inserts[k].milestone \in DOMAIN returns
             /\ ~returns[inserts[k].milestone].result.ok
    /\ \A k \in DOMAIN iv_inserts :
          iv_inserts[k].status = "rejected" =>
             /\ iv_pc = "returned"
             /\ ~iv_result.ok
             /\ \A c \in DOMAIN iv_calls :
                   iv_calls[c].analytic <= iv_inserts[k].analytic
             /\ \A j \in DOMAIN iv_inserts :
                   iv_inserts[j].analytic <= iv_inserts[k].analytic

\* the sink has rejected a write of each driver; in the interval driver an
\* analytic follows the failing one
C13_Witness ==
    /\ \E k \in DOMAIN inserts : inserts[k].status = "rejected"
    /\ \E k \in DOMAIN iv_inserts :
          /\ iv_inserts[k].status = "rejected"
          /\ iv_inserts[k].analytic < NumIntervalAnalytics

\* --------------------------------------------------------- ActiveAddresses
\* OffsetDateTime and Duration are counted in seconds, as MilestoneTimestamp
\* is; an owning address is Some(address) or None.
MaxCalls == 4
MaxInterval == 2
WindowStart == 1
MaxTimestamp == 6
MaxSnapshot == 2

Addresses == {"A", "B"}
OwningAddresses == {None} \cup { Some(a) : a \in Addresses }

\* the unspent outputs of a snapshot: when booked, and the owning address
SnapshotOutputs ==
    [booked : (WindowStart - 1)..(WindowStart + MaxInterval),
     owning_address : OwningAddresses]
Snapshots == { S \in SUBSET SnapshotOutputs : Cardinality(S) <= MaxSnapshot }

\* the transactions handed to handle_transaction: the owning addresses of the
\* consumed and of the created outputs
Transactions ==
    { [inputs |-> <<Some("A")>>, outputs |-> <<Some("B"), None>>],
      [inputs |-> <<None>>, outputs |-> <<Some("A")>>] }

\* faulty variant: the window is closed at its end, start_time + interval included
ActiveAddresses_init_ClosedWindow(start_time, interval, unspent_outputs) ==
    [start_time |-> start_time,
     interval |-> interval,
     addresses |->
        { output.owning_address.val :
            output \in { o \in unspent_outputs :
                           /\ start_time <= o.booked
                           /\ o.booked <= start_time + interval
                           /\ o.owning_address.some } },
     flush |-> None]

\* ActiveAddresses::init
ActiveAddresses_init(start_time, interval, unspent_outputs) ==
    [start_time |-> start_time,
     interval |-> interval,
     addresses |->
        { output.owning_address.val :
            output \in { o \in unspent_outputs :
                           /\ start_time <= o.booked
                           /\ o.booked < start_time + interval
                           /\ o.owning_address.some } },
     flush |-> None]

\* faulty variant: the window is emptied but start_time stays where it was
begin_milestone_KeepStart(self, stamp) ==
    LET end == self.start_time + self.interval
    IN  IF stamp.milestone_timestamp > end
        THEN [self EXCEPT !.flush = Some(Cardinality(self.addresses)),
                          !.addresses = {}]
        ELSE self

\* faulty variant: the window rolls as soon as the timestamp reaches its end
begin_milestone_RollAtEnd(self, stamp) ==
    LET end == self.start_time + self.interval
    IN  IF stamp.milestone_timestamp >= end
        THEN [self EXCEPT !.flush = Some(Cardinality(self.addresses)),
                          !.addresses = {},
                          !.start_time = end]
        ELSE self

\* faulty variant: the roll latches the count and does not empty the set
begin_milestone_KeepAddresses(self, stamp) ==
    LET end == self.start_time + self.interval
    IN  IF stamp.milestone_timestamp > end
        THEN [self EXCEPT !.flush = Some(Cardinality(self.addresses)),
                          !.start_time = end]
        ELSE self

\* ActiveAddresses::begin_milestone; stamp is its parameter at
begin_milestone(self, stamp) ==
    LET end == self.start_time + self.interval
    IN  IF stamp.milestone_timestamp > end
        THEN [self EXCEPT !.flush = Some(Cardinality(self.addresses)),
                          !.addresses = {},
                          !.start_time = end]
        ELSE self

\* faulty variant: only the created outputs are looked at
handle_transaction_OutputsOnly(self, inputs, outputs) ==
    LET owners(os) == { os[k].val : k \in { j \in DOMAIN os : os[j].some } }
    IN [self EXCEPT !.addresses = self.addresses \cup owners(outputs)]

\* faulty variant: the set is assigned the addresses of the transaction
\* instead of being inserted into
handle_transaction_Assign(self, inputs, outputs) ==
    LET owners(os) == { os[k].val : k \in { j \in DOMAIN os : os[j].some } }
    IN [self EXCEPT !.addresses = owners(inputs) \cup owners(outputs)]

\* ActiveAddresses::handle_transaction
handle_transaction(self, inputs, outputs) ==
    LET owners(os) == { os[k].val : k \in { j \in DOMAIN os : os[j].some } }
    IN [self EXCEPT !.addresses = self.addresses \cup owners(inputs) \cup owners(outputs)]

\* faulty variant: the pending value is returned and stays in the slot
end_milestone_KeepFlush(self, stamp) ==
    [self |-> self, ret |-> self.flush]

\* ActiveAddresses::end_milestone: flush.take().map(AddressCount)
end_milestone(self, stamp) ==
    [self |-> [self EXCEPT !.flush = None], ret |-> self.flush]

\* the MilestoneIndexTimestamp of the milestone begun last
LastStamp ==
    LET B == { k \in DOMAIN aa_trace : aa_trace[k].op = "begin_milestone" }
    IN  IF B = {}
        THEN [milestone_index |-> 0, milestone_timestamp |-> aa_snapshot.start_time]
        ELSE aa_trace[CHOOSE k \in B : \A j \in B : j <= k].stamp

\* one call on the analytic, as recorded in aa_trace
Call(op, stamp, inputs, outputs, ret) ==
    [op |-> op, stamp |-> stamp, inputs |-> inputs, outputs |-> outputs,
     pre |-> active_addresses, ret |-> ret]

\* the iterator of unspent outputs is consumed by init
Called(call) ==
    /\ Len(aa_trace) < MaxCalls
    /\ aa_trace' = Append(aa_trace, call)
    /\ aa_snapshot' = [aa_snapshot EXCEPT !.unspent_outputs = {}]
    /\ UNCHANGED <<milestoneVars, intervalVars, calendarVars, apiVars, steps>>

\* the analytic as init builds it from a snapshot
InitAddresses ==
    /\ MilestoneInit
    /\ ledger_updates = Repaired
    /\ IntervalIdle
    /\ CalendarIdle
    /\ ApiIdle
    /\ \E interval \in 1..MaxInterval, unspent_outputs \in Snapshots :
        /\ aa_snapshot = [start_time |-> WindowStart, interval |-> interval,
                          unspent_outputs |-> unspent_outputs]
        /\ active_addresses = ActiveAddresses_init(WindowStart, interval, unspent_outputs)
    /\ aa_trace = <<>>

\* begin_milestone of the next milestone: its timestamp is not before the
\* timestamp of the one before
CallBeginMilestone ==
    \E ts \in LastStamp.milestone_timestamp..MaxTimestamp :
        LET stamp == [milestone_index |-> LastStamp.milestone_index + 1,
                      milestone_timestamp |-> ts]
        IN  /\ active_addresses' = begin_milestone(active_addresses, stamp)
            /\ Called(Call("begin_milestone", stamp, <<>>, <<>>, None))

\* begin_milestone of the same milestone again: the milestone is retried
CallBeginMilestoneAgain ==
    /\ LastStamp.milestone_index >= 1
    /\ active_addresses' = begin_milestone(active_addresses, LastStamp)
    /\ Called(Call("begin_milestone", LastStamp, <<>>, <<>>, None))

CallHandleTransaction ==
    \E tx \in Transactions :
        /\ active_addresses' = handle_transaction(active_addresses, tx.inputs, tx.outputs)
        /\ Called(Call("handle_transaction", LastStamp, tx.inputs, tx.outputs, None))

CallEndMilestone ==
    LET e == end_milestone(active_addresses, LastStamp)
    IN  /\ active_addresses' = e.self
        /\ Called(Call("end_milestone", LastStamp, <<>>, <<>>, e.ret))

NextAddresses ==
    \/ CallBeginMilestone
    \/ CallBeginMilestoneAgain
    \/ CallHandleTransaction
    \/ CallEndMilestone

SpecAddresses == InitAddresses /\ [][NextAddresses]_vars

\* ------------------------------------------------ claims on ActiveAddresses
\* the calls of one kind, as positions of aa_trace
CallsOf(op) == { k \in DOMAIN aa_trace : aa_trace[k].op = op }

\* the struct after call k
PostState(k) == IF k < Len(aa_trace) THEN aa_trace[k + 1].pre ELSE active_addresses

\* begin_milestone call k found the timestamp after the end of the window
Rolled(k) ==
    /\ aa_trace[k].op = "begin_milestone"
    /\ aa_trace[k].stamp.milestone_timestamp >
          aa_trace[k].pre.start_time + aa_trace[k].pre.interval

\* C20: init builds the address set as exactly the owning addresses of the
\* snapshot outputs booked at or after start_time and before start_time +
\* interval; outputs outside the window or without an owning address add
\* nothing; the pending-flush slot starts empty.
C20_InitWindow ==
    aa_trace = <<>> =>
        /\ active_addresses.addresses =
              { a \in Addresses :
                  \E o \in aa_snapshot.unspent_outputs :
                      /\ o.owning_address = Some(a)
                      /\ aa_snapshot.start_time <= o.booked
                      /\ o.booked < aa_snapshot.start_time + aa_snapshot.interval }
        /\ active_addresses.flush = None
        /\ active_addresses.start_time = aa_snapshot.start_time
        /\ active_addresses.interval = aa_snapshot.interval

\* init over a snapshot with an output booked at start_time and an output of
\* another address booked at start_time + interval
C20_Witness ==
    /\ aa_trace = <<>>
    /\ \E o1, o2 \in aa_snapshot.unspent_outputs :
        /\ o1.booked = aa_snapshot.start_time
        /\ o2.booked = aa_snapshot.start_time + aa_snapshot.interval
        /\ o1.owning_address.some /\ o2.owning_address.some
        /\ o1.owning_address # o2.owning_address
    /\ Cardinality(active_addresses.addresses) = 1

\* init over a snapshot with an output in the window that has no owning address
C20_WitnessNoOwner ==
    /\ aa_trace = <<>>
    /\ \E o \in aa_snapshot.unspent_outputs :
        /\ o.booked = aa_snapshot.start_time
        /\ ~o.owning_address.some
    /\ active_addresses.addresses = {}

\* C18: begin_milestone(at) with a timestamp strictly after start_time +
\* interval sets the pending-flush slot to the size of the set, empties the
\* set and moves start_time forward by exactly one interval, however large
\* the gap; with a timestamp at or before start_time + interval it leaves
\* set, start_time and slot as they were.
C18_BeginMilestoneFrame ==
    \A k \in CallsOf("begin_milestone") :
        LET pre == aa_trace[k].pre
            post == PostState(k)
        IN  IF aa_trace[k].stamp.milestone_timestamp > pre.start_time + pre.interval
            THEN /\ post.flush = Some(Cardinality(pre.addresses))
                 /\ post.addresses = {}
                 /\ post.start_time = pre.start_time + pre.interval
                 /\ post.interval = pre.interval
            ELSE post = pre

\* a begin_milestone exactly at the end of a window that holds an address, and
\* a begin_milestone more than two intervals after the start of a window
C18_Witness ==
    /\ \E k \in CallsOf("begin_milestone") :
        /\ aa_trace[k].stamp.milestone_timestamp =
              aa_trace[k].pre.start_time + aa_trace[k].pre.interval
        /\ aa_trace[k].pre.addresses # {}
    /\ \E k \in CallsOf("begin_milestone") :
        /\ aa_trace[k].stamp.milestone_timestamp >
              aa_trace[k].pre.start_time + 2 * aa_trace[k].pre.interval
        /\ aa_trace[k].pre.addresses # {}

\* C17: end_milestone returns the pending-flush value if one is latched and
\* empties the slot; it returns nothing when no begin_milestone has rolled the
\* window since the end_milestone before (or since init); it changes neither
\* the address set nor start_time.
C17_EndMilestoneTakesFlush ==
    \A k \in CallsOf("end_milestone") :
        LET pre == aa_trace[k].pre
            post == PostState(k)
            since == { j \in 1..(k - 1) :
                         \A e \in CallsOf("end_milestone") : ~(j < e /\ e < k) }
        IN  /\ aa_trace[k].ret = pre.flush
            /\ post.flush = None
            /\ post.addresses = pre.addresses
            /\ post.start_time = pre.start_time
            /\ post.interval = pre.interval
            /\ (\A j \in since : ~Rolled(j)) => aa_trace[k].ret = None

\* an end_milestone right after init, and an end_milestone that returned a
\* count followed at once by another end_milestone
C17_Witness ==
    /\ aa_trace # <<>> /\ aa_trace[1].op = "end_milestone"
    /\ \E k \in CallsOf("end_milestone") :
        /\ aa_trace[k].ret.some
        /\ aa_trace[k].ret.val >= 1
        /\ k + 1 \in CallsOf("end_milestone")

\* the begin_milestone call that opened the milestone call k belongs to
\* (0 when there is none)
BeginOf(k) ==
    LET B == { b \in CallsOf("begin_milestone") : b <= k }
    IN IF B = {} THEN 0 ELSE CHOOSE b \in B : \A j \in B : j <= b

\* the timestamp of the milestone before the one begin_milestone call b
\* opens; before the first milestone, the start of the first window
PrevTimestamp(b) ==
    IF BeginOf(b - 1) = 0 THEN aa_snapshot.start_time
    ELSE aa_trace[BeginOf(b - 1)].stamp.milestone_timestamp

\* the interval boundaries start_time + k * interval, k >= 1, of the analytic
\* as built by init, that lie strictly before t
Crossed(t) ==
    Cardinality({ k \in 1..MaxTimestamp :
                    aa_snapshot.start_time + k * aa_snapshot.interval < t })

\* the boundaries the milestone opened by begin_milestone call b crosses
CrossedBy(b) ==
    Crossed(aa_trace[b].stamp.milestone_timestamp) - Crossed(PrevTimestamp(b))

\* the calls so far are begin_milestone, handle_transaction*, end_milestone
\* milestone after milestone, every milestone once
FollowsProtocol ==
    \A k \in DOMAIN aa_trace :
        IF aa_trace[k].op = "begin_milestone"
        THEN /\ k = 1 \/ aa_trace[k - 1].op = "end_milestone"
             /\ \A b \in CallsOf("begin_milestone") :
                   b < k => aa_trace[b].stamp # aa_trace[k].stamp
        ELSE k > 1 /\ aa_trace[k - 1].op \in {"begin_milestone", "handle_transaction"}

\* every milestone begun has been ended
Completed == aa_trace = <<>> \/ aa_trace[Len(aa_trace)].op = "end_milestone"

\* the end_milestone calls that returned a measurement
Emissions == { e \in CallsOf("end_milestone") : aa_trace[e].ret.some }

\* C16 (as stated): under the per-milestone protocol over non-decreasing
\* timestamps, the end_milestone calls that return a measurement are as many
\* as the interval boundaries crossed by the milestone timestamps, and the
\* end_milestone of a milestone that crosses no boundary returns nothing.
C16_EmissionPerBoundary ==
    FollowsProtocol =>
        /\ Completed =>
              Cardinality(Emissions) = Crossed(LastStamp.milestone_timestamp)
        /\ \A e \in CallsOf("end_milestone") :
              CrossedBy(BeginOf(e)) = 0 => aa_trace[e].ret = None

\* C16 (amended): under the per-milestone protocol over non-decreasing
\* timestamps, the end_milestone calls that return a measurement are never
\* more than the boundaries the timestamps have strictly passed; they are as
\* many, and the end_milestone of a milestone that passes no boundary returns
\* nothing, as long as no milestone passes more than one boundary at once; and
\* an end_milestone whose begin_milestone did not roll the window returns
\* nothing.
C16_EmissionPerRoll ==
    FollowsProtocol =>
        /\ Cardinality(Emissions) <= Crossed(LastStamp.milestone_timestamp)
        /\ (\A b \in CallsOf("begin_milestone") : CrossedBy(b) <= 1) =>
              /\ Completed =>
                    Cardinality(Emissions) = Crossed(LastStamp.milestone_timestamp)
              /\ \A e \in CallsOf("end_milestone") :
                    CrossedBy(BeginOf(e)) = 0 => aa_trace[e].ret = None
        /\ \A e \in CallsOf("end_milestone") :
              ~Rolled(BeginOf(e)) => aa_trace[e].ret = None

\* two milestones: the first passes one boundary and its end_milestone returns
\* a count, the second passes none and its end_milestone returns nothing
C16_Witness ==
    /\ FollowsProtocol /\ Completed
    /\ Cardinality(CallsOf("begin_milestone")) = 2
    /\ \A b \in CallsOf("begin_milestone") : CrossedBy(b) <= 1
    /\ \E e \in Emissions : CrossedBy(BeginOf(e)) = 1
    /\ \E e \in CallsOf("end_milestone") :
          CrossedBy(BeginOf(e)) = 0 /\ aa_trace[e].ret = None

\* C19: when the gap before a milestone crosses more than one boundary, the
\* crossings before the latest cause no emission of their own: once that
\* milestone is ended, the end_milestone of a later milestone that crosses no
\* further boundary returns nothing.
C19_EarlierCrossingsCollapsed ==
    FollowsProtocol =>
        \A b \in CallsOf("begin_milestone") :
            CrossedBy(b) >= 2 =>
                \A e \in CallsOf("end_milestone") :
                    (BeginOf(e) > b /\
                     Crossed(aa_trace[e].stamp.milestone_timestamp) =
                        Crossed(aa_trace[b].stamp.milestone_timestamp))
                    => aa_trace[e].ret = None

\* the handle_transaction calls of the milestone attempt that call e ends
TransactionsOf(e) ==
    LET hs == SelectSeq([k \in 1..e |-> k],
                        LAMBDA k : k > BeginOf(e) /\ aa_trace[k].op = "handle_transaction")
    IN [n \in DOMAIN hs |-> <<aa_trace[hs[n]].inputs, aa_trace[hs[n]].outputs>>]

\* end_milestone call e2 ends a retry of the milestone attempt ended by e1:
\* the same milestone is begun again after e1 and handed the same transactions
RetryOf(e1, e2) ==
    /\ e1 < e2
    /\ BeginOf(e1) # 0 /\ BeginOf(e2) > e1
    /\ aa_trace[e2].stamp = aa_trace[e1].stamp
    /\ TransactionsOf(e2) = TransactionsOf(e1)

\* C14: a milestone that is retried after its write failed emits the
\* measurement the failed attempt produced, and leaves the analytic as the
\* failed attempt left it: the measurement is not lost and nothing is counted
\* twice.
C14_RetryEmitsTheSame ==
    \A e1, e2 \in CallsOf("end_milestone") :
        RetryOf(e1, e2) =>
            /\ aa_trace[e2].ret = aa_trace[e1].ret
            /\ PostState(e2) = PostState(e1)

\* ------------------------------------------------- the delivery of milestones
\* InxWorkerError::SyncMilestoneGap
SyncMilestoneGap(start, end) == [kind |-> "SyncMilestoneGap", start |-> start, end |-> end]

\* the index the worker expects next: one more than the milestone processed
\* last, the same milestone again after a failure
ExpectedIndex == IF pc = "returned" /\ result.ok THEN at + 1 ELSE at

\* faulty variant: only an index that jumps ahead is taken for a gap
IsGap_AheadOnly(milestone_index) == milestone_index > ExpectedIndex

\* "milestone_index delivered to the driver strictly increases by 1; a gap is
\* a fatal error"
IsGap(milestone_index) == milestone_index # ExpectedIndex

\* The ingestion delivers a milestone: the one expected, the one before it
\* again, or the one after the next.  A gap ends the run with SyncMilestoneGap
\* before update_analytics is invoked; otherwise update_analytics is invoked
\* on the milestone and cone_stream() is opened (line 236).
DeliverMilestone ==
    /\ pc \in {"idle", "returned"}
    /\ steps < MaxSteps
    /\ \E milestone_index \in (ExpectedIndex - 1)..(ExpectedIndex + 1) :
        IF IsGap(milestone_index)
        THEN /\ pc' = "fatal"
             /\ result' = Err(SyncMilestoneGap(ExpectedIndex, milestone_index))
             /\ UNCHANGED <<analytics, run, at, ledger_updates, cone, inserts,
                            before, returns, steps, calls>>
        ELSE /\ steps' = steps + 1
             /\ run' = run + 1
             /\ at' = milestone_index
             /\ \E lu \in {ledger_updates, Repaired} : ledger_updates' = lu
             /\ cone' = <<>>
             /\ before' = analytics
             /\ pc' = "streaming"
             /\ UNCHANGED <<analytics, result, inserts, returns, calls>>
    /\ UNCHANGED <<intervalVars, addressVars, calendarVars, apiVars>>

NextWorker ==
    \/ DeliverMilestone
    \/ NextBlock
    \/ ConeStreamError
    \/ EndMilestone
    \/ SinkAccept
    \/ SinkReject

SpecWorker == Init /\ [][NextWorker]_vars

\* the milestone index run r of update_analytics was invoked on
MilestoneOf(r) == IF r \in DOMAIN returns THEN returns[r].milestone ELSE at

\* the milestone processed last before run r, FirstMilestone - 1 if none was
ProcessedBefore(r) ==
    LET P == { q \in OkRuns : q < r }
    IN IF P = {} THEN FirstMilestone - 1
       ELSE returns[CHOOSE q \in P : \A j \in P : j <= q].milestone

OwnersIn(os) == { a \in Addresses : \E k \in DOMAIN os : os[k] = Some(a) }

\* C21: handle_transaction adds the owning address of every consumed and of
\* every created output that has one: afterwards the set is the union of the
\* set before and those addresses, and start_time and the pending-flush slot
\* are as before.
C21_HandleTransactionUnion ==
    \A k \in CallsOf("handle_transaction") :
        LET pre == aa_trace[k].pre
            post == PostState(k)
        IN  /\ post.addresses =
                  pre.addresses \cup OwnersIn(aa_trace[k].inputs)
                                \cup OwnersIn(aa_trace[k].outputs)
            /\ post.start_time = pre.start_time
            /\ post.interval = pre.interval
            /\ post.flush = pre.flush

\* a transaction with an input that has an owning address, an output without
\* one and an address the set already holds, handled while a count is pending
C21_Witness ==
    \E k \in CallsOf("handle_transaction") :
        /\ OwnersIn(aa_trace[k].inputs) # {}
        /\ \E j \in DOMAIN aa_trace[k].outputs : aa_trace[k].outputs[j] = None
        /\ aa_trace[k].pre.addresses \cap
              (OwnersIn(aa_trace[k].inputs) \cup OwnersIn(aa_trace[k].outputs)) # {}
        /\ aa_trace[k].pre.flush.some
        /\ Cardinality(PostState(k).addresses) = 2

\* ------------------------------------------- claims on the interval driver
\* C22: update_interval_analytics calls handle_date_range exactly once on
\* each interval analytic, in list order, with the start date and interval
\* kind it was given, and forwards each result to the sink as one write tagged
\* with that start date and interval kind; the write of analytic k is
\* complete before handle_date_range of analytic k + 1 starts.
C22_IntervalAnalyticsInOrder ==
    /\ \A c \in DOMAIN iv_calls :
        /\ iv_calls[c].analytic = c
        /\ c <= NumIntervalAnalytics
        /\ iv_calls[c].start_date = iv_args.start
        /\ iv_calls[c].interval = iv_args.interval
        /\ \A j \in 1..(c - 1) :
              j \in DOMAIN iv_inserts /\ iv_inserts[j].status = "accepted"
    /\ \A j \in DOMAIN iv_inserts :
        /\ iv_inserts[j].analytic = j
        /\ j \in DOMAIN iv_calls
        /\ iv_inserts[j].measurement.inner.analytic = j
        /\ iv_inserts[j].measurement.start_date = iv_args.start
        /\ iv_inserts[j].measurement.interval = iv_args.interval
    /\ (iv_pc = "returned" /\ iv_result.ok) =>
        /\ Len(iv_calls) = NumIntervalAnalytics
        /\ Len(iv_inserts) = NumIntervalAnalytics
        /\ \A j \in DOMAIN iv_inserts : iv_inserts[j].status = "accepted"

\* an invocation on a list of several analytics has returned Ok
C22_Witness ==
    /\ iv_pc = "returned" /\ iv_result.ok
    /\ NumIntervalAnalytics >= 2
    /\ Len(iv_inserts) = NumIntervalAnalytics
    /\ iv_args.interval = "Month"

\* ------------------------------------------------- the calendar of the slots
\* A time::Date is [year, month, day]; a time::Duration is counted in seconds.
MaxSlots == 2

\* the years the start dates are drawn from: a century year that is not a leap
\* year, one that is, a common year and a leap year
Years == {1900, 2000, 2023, 2024}

\* time::util::is_leap_year
is_leap_year(year) == year % 4 = 0 /\ (year % 100 # 0 \/ year % 400 = 0)

\* time::util::days_in_year
days_in_year(year) == IF is_leap_year(year) THEN 366 ELSE 365

\* time::util::days_in_year_month
days_in_year_month(year, month) ==
    IF month \in {1, 3, 5, 7, 8, 10, 12} THEN 31
    ELSE IF month \in {4, 6, 9, 11} THEN 30
    ELSE IF is_leap_year(year) THEN 29 ELSE 28

\* time::Duration::days
Duration_days(n) == n * 86400

\* the days from 0001-01-01 to the date, as Date::to_julian_day counts them
\* from its own origin
DayNumber(date) ==
    LET p == date.year - 1
        before_year == 365 * p + (p \div 4) - (p \div 100) + (p \div 400)
        before_month == [m \in 1..12 |->
                            IF m = 1 THEN 0
                            ELSE IF m = 2 THEN 31
                            ELSE 31 + days_in_year_month(date.year, 2)
                                 + (m - 3) * 30
                                 + Cardinality({3, 5, 7, 8, 10} \cap 3..(m - 1))]
    IN before_year + before_month[date.month] + date.day

\* the date with that day number
DateOfDayNumber(n) ==
    LET year == CHOOSE y \in (n \div 366)..((n \div 365) + 1) :
                    /\ DayNumber([year |-> y, month |-> 1, day |-> 1]) <= n
                    /\ n < DayNumber([year |-> y + 1, month |-> 1, day |-> 1])
        month == CHOOSE m \in 1..12 :
                    /\ DayNumber([year |-> year, month |-> m, day |-> 1]) <= n
                    /\ n < DayNumber([year |-> year, month |-> m, day |-> 1])
                           + days_in_year_month(year, m)
    IN [year |-> year, month |-> month,
        day |-> n - DayNumber([year |-> year, month |-> month, day |-> 1]) + 1]

\* impl Add<Duration> for Date: the whole days of the duration are added
Date_add(date, duration) == DateOfDayNumber(DayNumber(date) + (duration \div 86400))

\* faulty variant: a year is taken for 365 days
to_duration_CommonYear(interval, start_date) ==
    IF interval = "Day" THEN Duration_days(1)
    ELSE IF interval = "Week" THEN Duration_days(7)
    ELSE IF interval = "Month"
    THEN Duration_days(days_in_year_month(start_date.year, start_date.month))
    ELSE Duration_days(365)

\* faulty variant: a month is taken for 30 days
to_duration_ThirtyDayMonth(interval, start_date) ==
    IF interval = "Day" THEN Duration_days(1)
    ELSE IF interval = "Week" THEN Duration_days(7)
    ELSE IF interval = "Month" THEN Duration_days(30)
    ELSE Duration_days(days_in_year(start_date.year))

\* AnalyticsInterval::to_duration
to_duration(interval, start_date) ==
    IF interval = "Day" THEN Duration_days(1)
    ELSE IF interval = "Week" THEN Duration_days(7)
    ELSE IF interval = "Month"
    THEN Duration_days(days_in_year_month(start_date.year, start_date.month))
    ELSE Duration_days(days_in_year(start_date.year))

\* AnalyticsInterval::end_date
end_date(interval, start_date) == Date_add(start_date, to_duration(interval, start_date))

\* the calendar dates of the years drawn from
CalendarDates ==
    { d \in [year : Years, month : 1..12, day : 1..31] :
        d.day <= days_in_year_month(d.year, d.month) }

InitCalendar ==
    /\ MilestoneInit
    /\ ledger_updates = Repaired
    /\ IntervalIdle
    /\ AddressesIdle
    /\ ApiIdle
    /\ cal_start \in CalendarDates
    /\ cal_interval \in AnalyticsIntervals
    /\ cal_slots = <<>>

\* the slot that starts at cal_start is computed; the next slot starts at
\* its end date
TakeSlot ==
    /\ Len(cal_slots) < MaxSlots
    /\ cal_slots' = Append(cal_slots,
           [start_date |-> cal_start, interval |-> cal_interval,
            duration |-> to_duration(cal_interval, cal_start),
            end_date |-> end_date(cal_interval, cal_start)])
    /\ cal_start' = end_date(cal_interval, cal_start)
    /\ UNCHANGED <<cal_interval, milestoneVars, intervalVars, addressVars, apiVars, steps>>

NextCalendar == TakeSlot

SpecCalendar == InitCalendar /\ [][NextCalendar]_vars

\* ------------------------------------------------- claims on the calendar
\* a leap year of the Gregorian calendar
Leap(year) == year % 400 = 0 \/ (year % 4 = 0 /\ year % 100 # 0)

\* the lengths of the months of a common year
MonthLengths == <<31, 28, 31, 30, 31, 30, 31, 31, 30, 31, 30, 31>>

MonthLength(year, month) ==
    IF month = 2 /\ Leap(year) THEN 29 ELSE MonthLengths[month]

\* the first day of the month after the month of a date
NextMonth(date) ==
    IF date.month < 12
    THEN [year |-> date.year, month |-> date.month + 1, day |-> 1]
    ELSE [year |-> date.year + 1, month |-> 1, day |-> 1]

\* the date n days after a date, walking month by month
RECURSIVE PlusDays(_, _)
PlusDays(date, n) ==
    LET left == MonthLength(date.year, date.month) - date.day
    IN  IF n <= left THEN [date EXCEPT !.day = date.day + n]
        ELSE PlusDays(NextMonth(date), n - left - 1)

\* the days in the slot of a kind that starts at a date
SlotDays(interval, start_date) ==
    CASE interval = "Day" -> 1
      [] interval = "Week" -> 7
      [] interval = "Month" -> MonthLength(start_date.year, start_date.month)
      [] interval = "Year" -> IF Leap(start_date.year) THEN 366 ELSE 365

\* C23: to_duration(start_date) is 1 day for Day, 7 days for Week, the days
\* of start_date's month in start_date's year for Month and the days of
\* start_date's year for Year; end_date(start_date) is start_date plus that
\* duration, the first day after the slot.
C23_DurationAndEndDate ==
    \A k \in DOMAIN cal_slots :
        LET slot == cal_slots[k]
            days == SlotDays(slot.interval, slot.start_date)
        IN  /\ slot.duration = days * 24 * 60 * 60
            /\ slot.end_date = PlusDays(slot.start_date, days)

\* two month slots computed, one of them the slot that starts on 2024-02-01
\* and ends on 2024-03-01
C23_Witness ==
    \E k \in DOMAIN cal_slots :
        /\ cal_slots[k].interval = "Month"
        /\ cal_slots[k].start_date = [year |-> 2024, month |-> 2, day |-> 1]
        /\ cal_slots[k].end_date = [year |-> 2024, month |-> 3, day |-> 1]
        /\ Len(cal_slots) = 2

\* C24: an interval run interleaved with a milestone run at any suspension
\* point does not affect it: every step that changes the state of the
\* milestone driver (the analytics, the measurements written, the Results
\* returned) is a step of update_analytics alone, so the milestone run goes as
\* it would have without the interval run.
C24_IntervalRunLeavesMilestoneRun == [][Next]_milestoneVars

\* a milestone run suspended after a block while an interval run awaits the
\* write of its second analytic
C24_Witness ==
    /\ pc = "streaming" /\ Len(cone) >= 1
    /\ iv_pc = "writing" /\ iv_k = 2

\* ------------------------------------------------ claims on the dispatch
\* run r got as far as end_milestone
Ended(r) == InsertsOf(r) # {}

\* the blocks of run r whose handle_block returned Ok
HandledBlocks(r) ==
    IF r \in DOMAIN returns /\ IsResolutionError(returns[r].result)
    THEN Len(ConeOf(r)) - 1
    ELSE Len(ConeOf(r))

\* the events the driver produces for the first n blocks of a cone, in order
RECURSIVE ProducedFor(_, _)
ProducedFor(blocks, n) ==
    IF n = 0 THEN <<>>
    ELSE ProducedFor(blocks, n - 1)
         \o (IF CarriesIncludedTransaction(blocks[n])
             THEN <<[ev |-> "handle_transaction", block |-> n]>> ELSE <<>>)
         \o <<[ev |-> "handle_block", block |-> n]>>

\* the events the driver has produced in run r
Produced(r) ==
    ProducedFor(ConeOf(r), HandledBlocks(r))
    \o (IF Ended(r) THEN <<[ev |-> "end_milestone", block |-> 0]>> ELSE <<>>)

\* what analytic i has seen of run r: the kind of each event and its block
Seen(i, r) ==
    LET es == RunEvents(i, r)
    IN [k \in DOMAIN es |->
          [ev |-> es[k].ev,
           block |-> IF es[k].ev = "handle_transaction" THEN es[k].of_block
                     ELSE IF es[k].ev = "handle_block"
                     THEN es[k].block_data.block.block_id
                     ELSE 0]]

\* C25: at every point where update_analytics can yield (awaiting the next
\* block of the cone, awaiting the write) all analytics of the list have
\* received the same sequence of events, no analytic has an event in flight,
\* and each analytic has seen the events in the order the driver produced
\* them.
C25_DispatchAtomic ==
    /\ \A i \in DOMAIN analytics :
        /\ Len(analytics[i]) = Len(analytics[1])
        /\ \A k \in DOMAIN analytics[i] :
              Arguments(analytics[i][k]) = Arguments(analytics[1][k])
        /\ \A r \in 1..run : Seen(i, r) = Produced(r)
    /\ Len(calls) = Len(analytics) * Len(analytics[1])

\* the driver awaits the write of a milestone whose cone held an included
\* transaction after another block
C25_Witness ==
    /\ pc = "writing"
    /\ Len(analytics) >= 2
    /\ Len(cone) >= 2
    /\ CarriesIncludedTransaction(cone[2])

\* ------------------------------------------------ claims on replay
\* the state the analytic was bootstrapped in
Bootstrap == IF aa_trace = <<>> THEN active_addresses ELSE aa_trace[1].pre

\* what the analytic was fed: the calls without the states and the returns
Feed == [k \in DOMAIN aa_trace |->
            [op |-> aa_trace[k].op, stamp |-> aa_trace[k].stamp,
             inputs |-> aa_trace[k].inputs, outputs |-> aa_trace[k].outputs]]

\* the measurements of the run so far: the stamp of the emitting milestone
\* and the value, in order
RECURSIVE MeasurementsUpTo(_)
MeasurementsUpTo(n) ==
    IF n = 0 THEN <<>>
    ELSE MeasurementsUpTo(n - 1)
         \o (IF aa_trace[n].op = "end_milestone" /\ aa_trace[n].ret.some
             THEN <<[stamp |-> aa_trace[n].stamp, val |-> aa_trace[n].ret.val]>>
             ELSE <<>>)

\* another run from the bootstrap state over the first n calls of a feed
RECURSIVE Replay(_, _)
Replay(feed, n) ==
    IF n = 0 THEN [self |-> Bootstrap, out |-> <<>>]
    ELSE LET before_n == Replay(feed, n - 1)
             c == feed[n]
         IN  CASE c.op = "begin_milestone" ->
                    [self |-> begin_milestone(before_n.self, c.stamp),
                     out |-> before_n.out]
               [] c.op = "handle_transaction" ->
                    [self |-> handle_transaction(before_n.self, c.inputs, c.outputs),
                     out |-> before_n.out]
               [] c.op = "end_milestone" ->
                    LET e == end_milestone(before_n.self, c.stamp)
                    IN [self |-> e.self,
                        out |-> before_n.out \o
                                (IF e.ret.some
                                 THEN <<[stamp |-> c.stamp, val |-> e.ret.val]>>
                                 ELSE <<>>)]

Reversed(seq) == [k \in DOMAIN seq |-> seq[Len(seq) + 1 - k]]

\* the feed with the transactions k and k + 1 handled in the other order
Swapped(feed, k) ==
    [j \in DOMAIN feed |-> IF j = k THEN feed[k + 1] ELSE IF j = k + 1 THEN feed[k] ELSE feed[j]]

\* the feed with the outputs of transaction k visited in the other order,
\* created before consumed
Mirrored(feed, k) ==
    [feed EXCEPT ![k] = [@ EXCEPT !.inputs = Reversed(feed[k].outputs),
                                  !.outputs = Reversed(feed[k].inputs)]]

SinceLastRoll(b) ==
    { k \in 1..(b - 1) : \A j \in k..(b - 1) : ~Rolled(j) }

\* no begin_milestone before call b has rolled the window
FirstRoll(b) == \A j \in 1..(b - 1) : ~Rolled(j)

\* C27: every count latched covers only its own window: each address counted
\* in the value latched for the window [s, s + interval) comes from a
\* bootstrap output booked in that window or from a transaction handled in a
\* milestone whose timestamp t satisfies s <= t < s + interval.
C27_CountCoversOwnWindow ==
    FollowsProtocol =>
        \A b \in CallsOf("begin_milestone") :
            Rolled(b) =>
                LET s == aa_trace[b].pre.start_time
                    interval == aa_trace[b].pre.interval
                IN  \A a \in aa_trace[b].pre.addresses :
                        \/ FirstRoll(b) /\ a \in Bootstrap.addresses
                        \/ \E k \in SinceLastRoll(b) \cap CallsOf("handle_transaction") :
                            /\ a \in OwnersIn(aa_trace[k].inputs) \cup OwnersIn(aa_trace[k].outputs)
                            /\ s <= aa_trace[k].stamp.milestone_timestamp
                            /\ aa_trace[k].stamp.milestone_timestamp < s + interval

\* ------------------------------------------------ claims on the pending slot
\* begin_milestone call b rolled over a count that was still pending
Overwrote(b) == Rolled(b) /\ aa_trace[b].pre.flush.some

\* the end_milestone calls of the milestone opened by begin_milestone call b
EndsOf(b) == { e \in CallsOf("end_milestone") : BeginOf(e) = b }

\* C28: under the per-milestone protocol the pending-flush slot is empty at
\* the start of every milestone, and every latched count is emitted by the
\* end_milestone of the very milestone whose begin_milestone latched it;
\* in any order of calls, a latched count is overwritten and lost only if
\* begin_milestone rolls twice with no end_milestone in between.
C28_LatchedCountEmittedOnce ==
    /\ FollowsProtocol =>
        /\ Completed => active_addresses.flush = None
        /\ \A b \in CallsOf("begin_milestone") :
            /\ aa_trace[b].pre.flush = None
            /\ ~Overwrote(b)
            /\ \A e \in EndsOf(b) :
                  aa_trace[e].ret =
                      IF Rolled(b) THEN Some(Cardinality(aa_trace[b].pre.addresses))
                      ELSE None
    /\ \A b2 \in CallsOf("begin_milestone") :
          Overwrote(b2) =>
              \E b1 \in CallsOf("begin_milestone") :
                  /\ b1 < b2
                  /\ Rolled(b1)
                  /\ \A e \in CallsOf("end_milestone") : ~(b1 < e /\ e < b2)

\* a milestone whose begin_milestone latches the count of a window that holds
\* an address and whose end_milestone emits it, followed by the begin_milestone
\* of the next milestone
C28_Witness ==
    /\ FollowsProtocol
    /\ Len(aa_trace) = 4
    /\ Rolled(1) /\ aa_trace[1].pre.addresses # {}
    /\ aa_trace[2].op = "handle_transaction"
    /\ aa_trace[3].op = "end_milestone"
    /\ aa_trace[3].ret = Some(Cardinality(aa_trace[1].pre.addresses))
    /\ aa_trace[4].op = "begin_milestone"

\* a milestone aborted after its begin_milestone latched a count, and the
\* begin_milestone of its retry rolling over it
C28_WitnessOverwritten ==
    \E b \in CallsOf("begin_milestone") :
        /\ Overwrote(b)
        /\ aa_trace[b].pre.flush.val >= 1
        /\ aa_trace[b].stamp = aa_trace[BeginOf(b - 1)].stamp

\* ------------------------------------------------ claims on the emitted value
\* the addresses accumulated when begin_milestone call b rolls: those of the
\* bootstrap if this is the first roll, and the owning addresses passed to
\* handle_transaction since the roll before
AccumulatedAt(b) ==
    (IF FirstRoll(b) THEN Bootstrap.addresses ELSE {})
    \cup UNION { OwnersIn(aa_trace[k].inputs) \cup OwnersIn(aa_trace[k].outputs) :
                   k \in SinceLastRoll(b) \cap CallsOf("handle_transaction") }

\* the last roll before call e (0 when there is none)
LastRollBefore(e) ==
    LET R == { b \in 1..(e - 1) : Rolled(b) }
    IN IF R = {} THEN 0 ELSE CHOOSE b \in R : \A j \in R : j <= b

LookupOrder(payload) ==
    LET ids == UtxoInputs(payload.inputs)
    IN  [k \in DOMAIN ids |-> [of |-> "consumed", output_id |-> ids[k]]]
        \o [j \in DOMAIN payload.outputs |->
              [of |-> "created", output_id |-> <<payload.transaction_id, j - 1>>]]

\* the lookup does not resolve in the store
Fails(lookup) ==
    IF lookup.of = "consumed"
    THEN lookup.output_id \notin ledger_updates.consumed
    ELSE lookup.output_id \notin ledger_updates.created

\* the error of a failing lookup for a block
ErrorOf(lookup, block_data) ==
    [kind |-> IF lookup.of = "consumed" THEN "MissingLedgerSpent"
              ELSE "MissingLedgerOutput",
     output_id |-> to_hex(lookup.output_id),
     milestone_index |-> block_data.metadata.referenced_by_milestone_index]

\* C30: the UTXO inputs of a transaction are resolved, in input order, before
\* any created output is looked up, and the created outputs in index order:
\* when several lookups would fail the error reported is that of the first
\* failing lookup in this order (the first failing input if an input fails,
\* else the lowest failing output index), and it carries the block's
\* referenced_by_milestone_index; a run fails with a resolution error only so.
C30_FirstFailingLookupReported ==
    /\ \A k \in DOMAIN cone :
        LET lookups == LookupOrder(cone[k].block.payload)
            failing == { n \in DOMAIN lookups : Fails(lookups[n]) }
        IN  (CarriesIncludedTransaction(cone[k]) /\ failing # {}) =>
                /\ Aborted
                /\ k = Len(cone)
                /\ result.err = ErrorOf(lookups[Min(failing)], cone[k])
    /\ Aborted =>
        /\ CarriesIncludedTransaction(cone[Len(cone)])
        /\ \E n \in DOMAIN LookupOrder(cone[Len(cone)].block.payload) :
              Fails(LookupOrder(cone[Len(cone)].block.payload)[n])

\* a transaction with an input and an output that do not resolve, reported as
\* the missing input
C30_Witness ==
    /\ Aborted
    /\ UnresolvedInputs(cone[Len(cone)].block.payload) # {}
    /\ UnresolvedOutputs(cone[Len(cone)].block.payload) # {}
    /\ result.err.kind = "MissingLedgerSpent"
    /\ result.err.milestone_index = at

\* a transaction with two inputs that do not resolve, reported as the one
\* that comes first in the inputs, which has the higher output id
C30_WitnessTwoInputs ==
    /\ Aborted
    /\ Cardinality(UnresolvedInputs(cone[Len(cone)].block.payload)) = 2
    /\ result.err.output_id = to_hex(<<0, 2>>)

\* a transaction with two outputs that do not resolve, reported as index 0
C30_WitnessTwoOutputs ==
    /\ Aborted
    /\ Cardinality(UnresolvedOutputs(cone[Len(cone)].block.payload)) = 2
    /\ result.err = MissingLedgerOutput(to_hex(<<1, 0>>), at)

\* ------------------------------------------------ the driver left to finish
\* update_analytics over a store in which every lookup resolves and with a
\* sink that accepts every write
NextLive ==
    \/ BeginMilestone
    \/ NextBlock
    \/ ConeStreamError
    \/ EndMilestone
    \/ SinkAccept

\* the future of update_analytics is polled to completion by its caller: the
\* cone stream, which is finite, yields a block, an error or its end
\* (line 238), and the sink answers the write (line 292)
Fairness ==
    /\ WF_vars(NextBlock \/ ConeStreamError \/ EndMilestone)
    /\ WF_vars(SinkAccept)

SpecLive == InitDrivers /\ [][NextLive]_vars /\ Fairness

\* the Result is the error the cone stream yielded
IsConeStreamError(res) == ~res.ok /\ res.err.kind = "ConeStream"

\* the end_milestone events analytic i received in the run in progress
EndEvents(i) ==
    { p \in DOMAIN analytics[i] :
        /\ analytics[i][p].ev = "end_milestone"
        /\ analytics[i][p].ctx.milestone = run }

\* C31: over a finite cone stream in which every lookup resolves, with a sink
\* that accepts the write, update_analytics eventually returns, and returns Ok
\* unless the cone stream yielded an error; when it returns Ok every analytic
\* was handed each block of the cone exactly once and end_milestone exactly
\* once; when it returns the error of the cone stream no analytic got
\* end_milestone and the sink was not called.
C31_EventuallyReturns ==
    /\ (pc = "streaming") ~>
          (pc = "returned" /\ (result.ok \/ IsConeStreamError(result)))
    /\ [](pc = "returned" =>
            \A i \in DOMAIN analytics :
                /\ result.ok =>
                      /\ BlocksHandled(i, run) = cone
                      /\ Cardinality(EndEvents(i)) = 1
                      /\ Cardinality(InsertsOf(run)) = 1
                /\ IsConeStreamError(result) =>
                      /\ EndEvents(i) = {}
                      /\ InsertsOf(run) = {})

\* a run over a cone that held a block and returned Ok, and then a run whose
\* cone stream yielded an error
C31_Witness ==
    /\ Len(returns) = 2
    /\ returns[1].result.ok /\ Len(returns[1].cone) = 1
    /\ IsConeStreamError(returns[2].result)
    /\ pc = "returned"

\* ------------------------------------------------ claims on the slots
\* a date comes before another
Before(d1, d2) ==
    \/ d1.year < d2.year
    \/ d1.year = d2.year /\ d1.month < d2.month
    \/ d1.year = d2.year /\ d1.month = d2.month /\ d1.day < d2.day

\* 1 January of the year after the year of a date
NextNewYear(date) == [year |-> date.year + 1, month |-> 1, day |-> 1]

\* the slots computed so far started on a first day of a month (of a year)
FromFirstOfMonth == cal_slots # <<>> /\ cal_slots[1].start_date.day = 1
FromNewYear == FromFirstOfMonth /\ cal_slots[1].start_date.month = 1

\* C32: iterating start := end_date(start) from the first day of a month with
\* Month (from 1 January with Year) always yields the first day of the next
\* month (1 January of the next year), across leap years; and for every kind
\* and every start the slots [start, end_date(start)) of consecutive
\* iterations neither overlap nor leave a gap: no slot is empty and each
\* starts on the day the one before ends.
C32_SlotsAlignedAndTiling ==
    /\ \A k \in DOMAIN cal_slots :
        LET slot == cal_slots[k]
        IN  /\ Before(slot.start_date, slot.end_date)
            /\ k > 1 => slot.start_date = cal_slots[k - 1].end_date
            /\ k = Len(cal_slots) => cal_start = slot.end_date
            /\ (slot.interval = "Month" /\ FromFirstOfMonth) =>
                  /\ slot.start_date.day = 1
                  /\ slot.end_date = NextMonth(slot.start_date)
            /\ (slot.interval = "Year" /\ FromNewYear) =>
                  /\ slot.start_date.day = 1 /\ slot.start_date.month = 1
                  /\ slot.end_date = NextNewYear(slot.start_date)

\* two year slots from 2023-01-01, the second over the leap year 2024
C32_Witness ==
    /\ Len(cal_slots) = 2
    /\ cal_slots[1].interval = "Year"
    /\ cal_slots[1].start_date = [year |-> 2023, month |-> 1, day |-> 1]
    /\ cal_slots[2].end_date = [year |-> 2025, month |-> 1, day |-> 1]

\* two month slots from 2024-01-01, the second over the February of a leap year
C32_WitnessMonths ==
    /\ Len(cal_slots) = 2
    /\ cal_slots[1].interval = "Month"
    /\ cal_slots[1].start_date = [year |-> 2024, month |-> 1, day |-> 1]
    /\ cal_slots[2].end_date = [year |-> 2024, month |-> 3, day |-> 1]

\* ------------------------------------------------ the paginated handlers
\* most records that match a query, largest page size, most requests of a
\* client
MaxRecords == 3
MaxPageSize == 2
MaxPages == 4

\* the output ids and block ids, and the milestone indexes, the records are
\* drawn from
RecordIds == {1, 2}
MilestoneIndexes == {1, 2}

Handlers == {"indexed_outputs", "indexed_tagged_data", "ledger_updates_by_address",
             "ledger_updates_by_milestone", "milestones"}

\* OutputId::to_hex, BlockId::to_hex of the ids of the store
Id_to_hex(id) == <<"0x", id>>

\* the records a query of a handler can match
RecordsOf(handler) ==
    CASE handler = "indexed_outputs" ->
            [output_id : RecordIds, booked_index : MilestoneIndexes]
      [] handler = "indexed_tagged_data" ->
            [block_id : RecordIds, milestone_index : MilestoneIndexes]
      [] handler = "ledger_updates_by_address" ->
            [at : [milestone_index : MilestoneIndexes], output_id : RecordIds,
             is_spent : BOOLEAN]
      [] handler = "ledger_updates_by_milestone" ->
            [output_id : RecordIds, is_spent : BOOLEAN]
      [] handler = "milestones" ->
            { [index |-> m, milestone_id |-> m] : m \in MilestoneIndexes \cup {3} }

\* what the store orders the records of a handler by (and keeps unique)
SortKey(handler, rec) ==
    CASE handler = "indexed_outputs" -> <<rec.booked_index, rec.output_id, 0>>
      [] handler = "indexed_tagged_data" -> <<rec.milestone_index, rec.block_id, 0>>
      [] handler = "ledger_updates_by_address" ->
            <<rec.at.milestone_index, rec.output_id, IF rec.is_spent THEN 1 ELSE 0>>
      [] handler = "ledger_updates_by_milestone" ->
            <<0, rec.output_id, IF rec.is_spent THEN 1 ELSE 0>>
      [] handler = "milestones" -> <<rec.index, 0, 0>>

KeyLess(a, b) ==
    \/ a[1] < b[1]
    \/ a[1] = b[1] /\ a[2] < b[2]
    \/ a[1] = b[1] /\ a[2] = b[2] /\ a[3] < b[3]

\* the records of a set in the order of the store, for a sort direction
StoreOrder(handler, S, sort) ==
    LET less(q, r) == IF sort = "Oldest"
                      THEN KeyLess(SortKey(handler, q), SortKey(handler, r))
                      ELSE KeyLess(SortKey(handler, r), SortKey(handler, q))
    IN [k \in 1..Cardinality(S) |->
          CHOOSE r \in S : Cardinality({ q \in S : less(q, r) }) = k - 1]

\* an output id and a block id belong to one record
UniqueIds(handler, S) ==
    CASE handler = "indexed_outputs" ->
            \A q, r \in S : q.output_id = r.output_id => q = r
      [] handler = "indexed_tagged_data" ->
            \A q, r \in S : q.block_id = r.block_id => q = r
      [] OTHER -> TRUE

StoreOrders(handler) ==
    { StoreOrder(handler, S, sort) :
        S \in { T \in SUBSET RecordsOf(handler) :
                  Cardinality(T) <= MaxRecords /\ UniqueIds(handler, T) },
        sort \in {"Oldest", "Newest"} }

\* Display of the cursor types: the fields joined by dots, page_size last
IndexedOutputsCursor_to_string(c) ==
    <<c.milestone_index, ".", Id_to_hex(c.output_id), ".", c.page_size>>
IndexedBlocksCursor_to_string(c) ==
    <<c.milestone_index, ".", Id_to_hex(c.block_id), ".", c.page_size>>
LedgerUpdatesByAddressCursor_to_string(c) ==
    <<c.milestone_index, ".", Id_to_hex(c.output_id), ".", c.is_spent, ".", c.page_size>>
LedgerUpdatesByMilestoneCursor_to_string(c) ==
    <<Id_to_hex(c.output_id), ".", c.is_spent, ".", c.page_size>>
MilestonesCursor_to_string(c) == <<c.milestone_index, ".", c.page_size>>

\* FromStr of the cursor types: the record the cursor string names, as its
\* sort key, and the page size it carries
ParseCursor(handler, str) ==
    CASE handler \in {"indexed_outputs", "indexed_tagged_data"} ->
            [key |-> <<str[1], str[3][2], 0>>, page_size |-> str[5]]
      [] handler = "ledger_updates_by_address" ->
            [key |-> <<str[1], str[3][2], IF str[5] THEN 1 ELSE 0>>, page_size |-> str[7]]
      [] handler = "ledger_updates_by_milestone" ->
            [key |-> <<0, str[1][2], IF str[3] THEN 1 ELSE 0>>, page_size |-> str[5]]
      [] handler = "milestones" ->
            [key |-> <<str[1], 0, 0>>, page_size |-> str[3]]

\* the query of the store: at most limit records in store order, from the
\* start without a cursor, else from the record the cursor names, included
Query(handler, records, cursor, limit) ==
    LET from == IF ~cursor.some THEN 1
                ELSE LET named == { k \in DOMAIN records :
                                      SortKey(handler, records[k]) =
                                          ParseCursor(handler, cursor.val).key }
                     IN IF named = {} THEN Len(records) + 1
                        ELSE CHOOSE k \in named : TRUE
        upto == IF from + limit - 1 < Len(records) THEN from + limit - 1
                ELSE Len(records)
    IN SubSeq(records, from, upto)

\* iter.by_ref().take(page_size): the first page_size of the records obtained
Take(obtained, page_size) ==
    SubSeq(obtained, 1, IF page_size < Len(obtained) THEN page_size ELSE Len(obtained))

\* iter.next() after the take: the record left, if any
NextAfterTake(obtained, page_size) ==
    IF Len(obtained) > page_size THEN Some(obtained[page_size + 1]) ELSE None

\* faulty variant: no extra record is asked for
ExtraRecord_NoExtra(page_size) == page_size

\* Get one extra record so that we can create the cursor.
ExtraRecord(page_size) == page_size + 1

\* faulty variant: the cursor is made from the last record taken
indexed_outputs_CursorOfLastItem(obtained, page_size) ==
    LET items == Take(obtained, page_size)
        left == NextAfterTake(obtained, page_size)
    IN [items |-> [k \in DOMAIN items |-> Id_to_hex(items[k].output_id)],
        cursor |->
            IF left.some /\ items # <<>>
            THEN Some(IndexedOutputsCursor_to_string(
                     [milestone_index |-> items[Len(items)].booked_index,
                      output_id |-> items[Len(items)].output_id,
                      page_size |-> page_size]))
            ELSE None]

\* indexed_outputs, from the records obtained on
indexed_outputs(obtained, page_size) ==
    LET items == Take(obtained, page_size)
        left == NextAfterTake(obtained, page_size)
    IN [items |-> [k \in DOMAIN items |-> Id_to_hex(items[k].output_id)],
        cursor |->
            IF left.some
            THEN Some(IndexedOutputsCursor_to_string(
                     [milestone_index |-> left.val.booked_index,
                      output_id |-> left.val.output_id,
                      page_size |-> page_size]))
            ELSE None]

\* indexed_tagged_data, from the records obtained on
indexed_tagged_data(obtained, page_size) ==
    LET items == Take(obtained, page_size)
        left == NextAfterTake(obtained, page_size)
    IN [items |-> [k \in DOMAIN items |-> Id_to_hex(items[k].block_id)],
        cursor |->
            IF left.some
            THEN Some(IndexedBlocksCursor_to_string(
                     [milestone_index |-> left.val.milestone_index,
                      block_id |-> left.val.block_id,
                      page_size |-> page_size]))
            ELSE None]

\* From<LedgerUpdateByAddressRecord> for the item of the response
LedgerUpdateByAddressDto(rec) ==
    [output_id |-> Id_to_hex(rec.output_id), is_spent |-> rec.is_spent,
     milestone_index |-> rec.at.milestone_index]

\* ledger_updates_by_address, from the record stream on
ledger_updates_by_address(obtained, page_size) ==
    LET items == Take(obtained, page_size)
        left == NextAfterTake(obtained, page_size)
    IN [items |-> [k \in DOMAIN items |-> LedgerUpdateByAddressDto(items[k])],
        cursor |->
            IF left.some
            THEN Some(LedgerUpdatesByAddressCursor_to_string(
                     [milestone_index |-> left.val.at.milestone_index,
                      output_id |-> left.val.output_id,
                      is_spent |-> left.val.is_spent,
                      page_size |-> page_size]))
            ELSE None]

\* From<LedgerUpdateByMilestoneRecord> for the item of the response
LedgerUpdateByMilestoneDto(rec) ==
    [output_id |-> Id_to_hex(rec.output_id), is_spent |-> rec.is_spent]

\* ledger_updates_by_milestone, from the record stream on
ledger_updates_by_milestone(obtained, page_size) ==
    LET items == Take(obtained, page_size)
        left == NextAfterTake(obtained, page_size)
    IN [items |-> [k \in DOMAIN items |-> LedgerUpdateByMilestoneDto(items[k])],
        cursor |->
            IF left.some
            THEN Some(LedgerUpdatesByMilestoneCursor_to_string(
                     [output_id |-> left.val.output_id,
                      page_size |-> page_size,
                      is_spent |-> left.val.is_spent]))
            ELSE None]

\* From<MilestoneResult> for the item of the response
MilestoneDto(rec) == [milestone_id |-> Id_to_hex(rec.milestone_id), index |-> rec.index]

\* milestones, from the record stream on
milestones(obtained, page_size) ==
    LET items == Take(obtained, page_size)
        left == NextAfterTake(obtained, page_size)
    IN [items |-> [k \in DOMAIN items |-> MilestoneDto(items[k])],
        cursor |->
            IF left.some
            THEN Some(MilestonesCursor_to_string(
                     [milestone_index |-> left.val.index, page_size |-> page_size]))
            ELSE None]

\* the routes: the handler of a path
Route(handler, obtained, page_size) ==
    CASE handler = "indexed_outputs" -> indexed_outputs(obtained, page_size)
      [] handler = "indexed_tagged_data" -> indexed_tagged_data(obtained, page_size)
      [] handler = "ledger_updates_by_address" ->
            ledger_updates_by_address(obtained, page_size)
      [] handler = "ledger_updates_by_milestone" ->
            ledger_updates_by_milestone(obtained, page_size)
      [] handler = "milestones" -> milestones(obtained, page_size)

\* a client, a handler, its page size and the records that match its query
InitPages ==
    /\ MilestoneInit
    /\ ledger_updates = Repaired
    /\ IntervalIdle
    /\ AddressesIdle
    /\ CalendarIdle
    /\ pg_handler \in Handlers
    /\ pg_records \in StoreOrders(pg_handler)
    /\ pg_page_size \in 0..MaxPageSize
    /\ pg_cursor = None
    /\ pg_pages = <<>>
    /\ OutputsIdle
    /\ AuthIdle

\* the handler serves a request: it asks the store for one record more than
\* the page size and builds the response from the records obtained
Serve(cursor, page_size) ==
    LET limit == ExtraRecord(page_size)
        obtained == Query(pg_handler, pg_records, cursor, limit)
        response == Route(pg_handler, obtained, page_size)
    IN  /\ Len(pg_pages) < MaxPages
        /\ pg_pages' = Append(pg_pages,
               [cursor |-> cursor, page_size |-> page_size, limit |-> limit,
                obtained |-> obtained, response |-> response])
        /\ pg_cursor' = response.cursor
        /\ pg_page_size' = page_size
        /\ UNCHANGED <<pg_handler, pg_records>>
        /\ UNCHANGED <<milestoneVars, intervalVars, addressVars, calendarVars, steps>>
        /\ UNCHANGED <<outputVars, authVars>>

\* the first request of the client, without a cursor
FirstPage ==
    /\ pg_pages = <<>>
    /\ Serve(None, pg_page_size)

\* the client follows the cursor of the last response; the page size of the
\* request is the one the cursor carries
FollowCursor ==
    /\ pg_pages # <<>>
    /\ pg_cursor.some
    /\ Serve(pg_cursor, ParseCursor(pg_handler, pg_cursor.val).page_size)

NextPages == FirstPage \/ FollowCursor

SpecPages == InitPages /\ [][NextPages]_vars

\* ------------------------------------------------ claims on the pages
\* the item of a response shows the record
Shows(handler, item, rec) ==
    CASE handler = "indexed_outputs" -> item = <<"0x", rec.output_id>>
      [] handler = "indexed_tagged_data" -> item = <<"0x", rec.block_id>>
      [] handler = "ledger_updates_by_address" ->
            /\ item.output_id = <<"0x", rec.output_id>>
            /\ item.is_spent = rec.is_spent
            /\ item.milestone_index = rec.at.milestone_index
      [] handler = "ledger_updates_by_milestone" ->
            /\ item.output_id = <<"0x", rec.output_id>>
            /\ item.is_spent = rec.is_spent
      [] handler = "milestones" ->
            /\ item.index = rec.index
            /\ item.milestone_id = <<"0x", rec.milestone_id>>

\* the positions in the store of the records a cursor string names
NamedBy(str) ==
    { k \in DOMAIN pg_records :
        SortKey(pg_handler, pg_records[k]) = ParseCursor(pg_handler, str).key }

\* where in the store the records obtained for page j begin
OffsetOf(j) ==
    IF pg_pages[j].cursor.some
    THEN (CHOOSE k \in NamedBy(pg_pages[j].cursor.val) : TRUE) - 1
    ELSE 0

\* C33: every paginated handler requests page_size + 1 records, returns as
\* items the first min(page_size, n) of the n records obtained, in store
\* order, and returns a cursor if and only if n > page_size; the cursor then
\* names the (page_size + 1)-th record, which is not among the items, and
\* carries the same page_size.
C33_PageAndCursor ==
    \A j \in DOMAIN pg_pages :
        LET page == pg_pages[j]
            n == Len(page.obtained)
            items == page.response.items
            cursor == page.response.cursor
        IN  /\ page.limit = page.page_size + 1
            /\ Len(items) = IF page.page_size < n THEN page.page_size ELSE n
            /\ \A k \in DOMAIN items : Shows(pg_handler, items[k], page.obtained[k])
            /\ cursor.some <=> n > page.page_size
            /\ cursor.some =>
                  /\ NamedBy(cursor.val) = { OffsetOf(j) + page.page_size + 1 }
                  /\ pg_records[OffsetOf(j) + page.page_size + 1] =
                        page.obtained[page.page_size + 1]
                  /\ \A k \in DOMAIN items :
                        ~Shows(pg_handler, items[k], page.obtained[page.page_size + 1])
                  /\ ParseCursor(pg_handler, cursor.val).page_size = page.page_size

\* a page of two items with a cursor, then a page of one item without
C33_Witness ==
    /\ Len(pg_pages) = 2
    /\ Len(pg_pages[1].response.items) = 2 /\ pg_pages[1].response.cursor.some
    /\ Len(pg_pages[2].response.items) = 1 /\ ~pg_pages[2].response.cursor.some

\* ------------------------------------------------ the walk of a client
\* the client makes its first request and goes on following the cursor it is
\* returned; every request is answered
WalkFairness == WF_vars(FirstPage) /\ WF_vars(FollowCursor)

SpecWalk == InitPages /\ [][NextPages]_vars /\ WalkFairness

\* the items of the first j responses, in the order received
RECURSIVE ItemsUpTo(_)
ItemsUpTo(j) ==
    IF j = 0 THEN <<>> ELSE ItemsUpTo(j - 1) \o pg_pages[j].response.items

Received == ItemsUpTo(Len(pg_pages))

\* the last response carried no cursor
WalkEnded == pg_pages # <<>> /\ ~pg_cursor.some

\* C34: with a store that returns the records in a fixed total order from the
\* record the cursor names, included, over data that does not change, a
\* client that starts without a cursor and follows every cursor returned with
\* page_size >= 1 receives every matching record exactly once, in store
\* order, and after finitely many pages gets a response without a cursor.
C34_WalkCompleteNoDuplicates ==
    /\ [](pg_page_size >= 1 =>
            /\ Len(Received) <= Len(pg_records)
            /\ \A k \in DOMAIN Received : Shows(pg_handler, Received[k], pg_records[k])
            /\ Len(pg_pages) < MaxPages
            /\ WalkEnded => Len(Received) = Len(pg_records))
    /\ (pg_page_size >= 1) ~> WalkEnded

\* a walk of three pages of one record that has ended
C34_Witness ==
    /\ WalkEnded
    /\ Len(pg_pages) = 3
    /\ pg_page_size = 1
    /\ Len(Received) = 3

\* ------------------------------------------------ the outputs collection
\* most upsert_output_with_metadata calls
MaxUpserts == 2

OutputIds == {"id1", "id2"}
Outputs == {"output1", "output2"}
OutputMetadatas == {"metadata1", "metadata2"}

\* struct OutputDocument
OutputDocument(output_id, output, metadata) ==
    [output_id |-> output_id, output |-> output, metadata |-> metadata]

\* update_one with upsert(true) and $set of the whole document: the document
\* under the output id is replaced, or inserted if there is none
update_one_upsert(docs, output_id, document) ==
    [id \in DOMAIN docs \cup {output_id} |->
        IF id = output_id THEN document ELSE docs[id]]

\* $match on output_id, $replaceRoot to a field of the document, try_next
aggregate_field(docs, output_id, field) ==
    IF output_id \in DOMAIN docs THEN Some(docs[output_id][field]) ELSE None

\* MongoDb::get_output
get_output(docs, output_id) == aggregate_field(docs, output_id, "output")

\* MongoDb::get_output_metadata
get_output_metadata(docs, output_id) == aggregate_field(docs, output_id, "metadata")

\* the match of lines 90-93
Combined(maybe_output, maybe_metadata) ==
    IF maybe_output.some /\ maybe_metadata.some
    THEN Some(<<maybe_output.val, maybe_metadata.val>>)
    ELSE None

InitOutputs ==
    /\ MilestoneInit
    /\ ledger_updates = Repaired
    /\ IntervalIdle
    /\ AddressesIdle
    /\ CalendarIdle
    /\ PagesIdle
    /\ AuthIdle
    /\ OutputsIdle

\* MongoDb::upsert_output_with_metadata, by a writer of the collection
UpsertOutputWithMetadata ==
    /\ Len(out_writes) < MaxUpserts
    /\ \E output_id \in OutputIds, output \in Outputs, metadata \in OutputMetadatas :
        LET output_document == OutputDocument(output_id, output, metadata)
        IN  /\ out_docs' = update_one_upsert(out_docs, output_id, output_document)
            /\ out_writes' = Append(out_writes, output_document)
    /\ UNCHANGED <<out_pc, out_call, out_result>>
    /\ UNCHANGED <<milestoneVars, intervalVars, addressVars, calendarVars, steps>>
    /\ UNCHANGED <<pageVars, authVars>>

\* get_output_and_metadata is called and awaits get_output (line 87)
CallGetOutputAndMetadata ==
    /\ out_pc \in {"idle", "returned"}
    /\ \E output_id \in OutputIds :
        out_call' = [output_id |-> output_id, maybe_output |-> None,
                     maybe_metadata |-> None]
    /\ out_pc' = "get_output"
    /\ UNCHANGED <<out_docs, out_writes, out_result>>
    /\ UNCHANGED <<milestoneVars, intervalVars, addressVars, calendarVars, steps>>
    /\ UNCHANGED <<pageVars, authVars>>

\* the first query is answered; get_output_metadata is awaited (line 88)
GetOutputAnswered ==
    /\ out_pc = "get_output"
    /\ out_call' = [out_call EXCEPT
                       !.maybe_output = get_output(out_docs, out_call.output_id)]
    /\ out_pc' = "get_output_metadata"
    /\ UNCHANGED <<out_docs, out_writes, out_result>>
    /\ UNCHANGED <<milestoneVars, intervalVars, addressVars, calendarVars, steps>>
    /\ UNCHANGED <<pageVars, authVars>>

\* the second query is answered and the two are combined (lines 90-95)
GetOutputMetadataAnswered ==
    /\ out_pc = "get_output_metadata"
    /\ LET maybe_metadata == get_output_metadata(out_docs, out_call.output_id)
       IN  /\ out_call' = [out_call EXCEPT !.maybe_metadata = maybe_metadata]
           /\ out_result' = Ok(Combined(out_call.maybe_output, maybe_metadata))
    /\ out_pc' = "returned"
    /\ UNCHANGED <<out_docs, out_writes>>
    /\ UNCHANGED <<milestoneVars, intervalVars, addressVars, calendarVars, steps>>
    /\ UNCHANGED <<pageVars, authVars>>

\* one of the two queries fails: the error is returned (the ? of lines 87, 88)
QueryError ==
    /\ out_pc \in {"get_output", "get_output_metadata"}
    /\ out_result' = Err([kind |-> "mongodb"])
    /\ out_pc' = "returned"
    /\ UNCHANGED <<out_docs, out_writes, out_call>>
    /\ UNCHANGED <<milestoneVars, intervalVars, addressVars, calendarVars, steps>>
    /\ UNCHANGED <<pageVars, authVars>>

NextOutputs ==
    \/ UpsertOutputWithMetadata
    \/ CallGetOutputAndMetadata
    \/ GetOutputAnswered
    \/ GetOutputMetadataAnswered
    \/ QueryError

SpecOutputs == InitOutputs /\ [][NextOutputs]_vars

\* ------------------------------------------------ claims on the outputs
\* C35: get_output_and_metadata returns None if the output or its metadata is
\* not found, and otherwise a pair (output, metadata) that one
\* upsert_output_with_metadata call stored together under that output id,
\* also when upserts of the same output id come between its two queries.
C35_NoTornPair ==
    (out_pc = "returned" /\ out_result.ok) =>
        IF out_result.val.some
        THEN \E w \in DOMAIN out_writes :
                /\ out_writes[w].output_id = out_call.output_id
                /\ out_writes[w].output = out_result.val.val[1]
                /\ out_writes[w].metadata = out_result.val.val[2]
        ELSE ~out_call.maybe_output.some \/ ~out_call.maybe_metadata.some

\* ------------------------------------------------ the Auth extractor
Paths == {"/api/core/v2/info", "/api/explorer/v2/balance"}
UriQueries == {"", "?x=1"}

\* http::Uri and its Display: path and query
Uris == [path : Paths, query : UriQueries]
Uri_to_string(uri) == <<uri.path, uri.query>>

\* the regular expressions of a RegexSet: the path they match, and whether
\* they match to the end of the string
Regexes == [path : Paths, to_end : BOOLEAN]

\* RegexSet::is_match: one of the expressions matches the string
RegexSet_is_match(set, str) ==
    \E regex \in set : str[1] = regex.path /\ (regex.to_end => str[2] = "")

\* ApiConfigData::ISSUER, ApiConfigData::AUDIENCE
ISSUER == "ApiConfigData::ISSUER"
AUDIENCE == "ApiConfigData::AUDIENCE"

\* the tokens a client can send: a string that is no JWT, or a JWT signed
\* with a key, with issuer and audience, a not-before time that has or has not
\* come, and the claims Validation::default() checks in order or not
Tokens ==
    [well_formed : BOOLEAN, key : {"secret", "other"},
     iss : {ISSUER, "other"}, aud : {AUDIENCE, "other"},
     nbf_reached : BOOLEAN, defaults_ok : BOOLEAN]

\* the Authorization header of a request: absent, of another scheme, Bearer
AuthorizationHeaders ==
    {None, Some([scheme |-> "Basic", token |-> None])}
    \cup { Some([scheme |-> "Bearer", token |-> Some(t)]) : t \in Tokens }

\* request parts: the uri as routed, the OriginalUri, the Authorization header
RequestParts ==
    [uri : [path : Paths, query : {""}], original_uri : Uris,
     authorization : AuthorizationHeaders]

\* the ApiConfigData the extractor can be given
ApiConfigDatas ==
    [public_routes : SUBSET Regexes, jwt_secret_key : {"secret"}]

\* TypedHeader::<Authorization<Bearer>>::from_request_parts
TypedHeader_Authorization_Bearer(parts) ==
    IF ~parts.authorization.some THEN Err([kind |-> "TypedHeaderRejection", reason |-> "Missing"])
    ELSE IF parts.authorization.val.scheme # "Bearer"
    THEN Err([kind |-> "TypedHeaderRejection", reason |-> "Error"])
    ELSE Ok(parts.authorization.val.token.val)

\* Validation::default().with_issuer(..).with_audience(..).validate_nbf(true)
Validation == [iss |-> ISSUER, aud |-> AUDIENCE, validate_nbf |-> TRUE]

\* JsonWebToken::validate
JsonWebToken_validate(jwt, validation, secret) ==
    IF /\ jwt.well_formed
       /\ jwt.key = secret
       /\ jwt.iss = validation.iss
       /\ jwt.aud = validation.aud
       /\ validation.validate_nbf => jwt.nbf_reached
       /\ jwt.defaults_ok
    THEN Ok("claims")
    ELSE Err([kind |-> "jwt::Error"])

\* faulty variant: the Authorization header is extracted before the public
\* routes are looked at
from_request_parts_HeaderFirst(parts, config) ==
    LET uri == parts.original_uri
        bearer == TypedHeader_Authorization_Bearer(parts)
    IN  IF ~bearer.ok
        THEN [ret |-> Err([kind |-> "RequestError", from |-> bearer.err]),
              header_examined |-> TRUE]
        ELSE IF RegexSet_is_match(config.public_routes, Uri_to_string(uri))
        THEN [ret |-> Ok("Auth"), header_examined |-> TRUE]
        ELSE IF ~JsonWebToken_validate(bearer.val, Validation, config.jwt_secret_key).ok
        THEN [ret |-> Err([kind |-> "AuthError::InvalidJwt"]), header_examined |-> TRUE]
        ELSE [ret |-> Ok("Auth"), header_examined |-> TRUE]

\* Auth::from_request_parts: the Result, and whether the Authorization header
\* was extracted
from_request_parts(parts, config) ==
    LET uri == parts.original_uri
    IN  IF RegexSet_is_match(config.public_routes, Uri_to_string(uri))
        THEN [ret |-> Ok("Auth"), header_examined |-> FALSE]
        ELSE LET bearer == TypedHeader_Authorization_Bearer(parts)
             IN  IF ~bearer.ok
                 THEN [ret |-> Err([kind |-> "RequestError", from |-> bearer.err]),
                       header_examined |-> TRUE]
                 ELSE IF ~JsonWebToken_validate(bearer.val, Validation,
                                                config.jwt_secret_key).ok
                 THEN [ret |-> Err([kind |-> "AuthError::InvalidJwt"]),
                       header_examined |-> TRUE]
                 ELSE [ret |-> Ok("Auth"), header_examined |-> TRUE]

InitAuth ==
    /\ MilestoneInit
    /\ ledger_updates = Repaired
    /\ IntervalIdle
    /\ AddressesIdle
    /\ CalendarIdle
    /\ PagesIdle
    /\ OutputsIdle
    /\ au_config \in ApiConfigDatas
    /\ au_request = None
    /\ au_result = [ret |-> Ok("none"), header_examined |-> FALSE]

\* a request reaches a handler that takes Auth; the extractor keeps nothing
\* from one request to the next, so one request is followed
FromRequestParts ==
    /\ au_request = None
    /\ \E parts \in RequestParts :
        /\ au_request' = Some(parts)
        /\ au_result' = from_request_parts(parts, au_config)
    /\ UNCHANGED au_config
    /\ UNCHANGED <<milestoneVars, intervalVars, addressVars, calendarVars, steps>>
    /\ UNCHANGED <<pageVars, outputVars>>

NextAuth == FromRequestParts

SpecAuth == InitAuth /\ [][NextAuth]_vars

\* ------------------------------------------------ claims on the Auth extractor
\* the original URI of the request matches the configured public routes
OnPublicRoute ==
    \E regex \in au_config.public_routes :
        /\ au_request.val.original_uri.path = regex.path
        /\ regex.to_end => au_request.val.original_uri.query = ""

\* the request carries an Authorization header of the Bearer scheme
CarriesBearer ==
    /\ au_request.val.authorization.some
    /\ au_request.val.authorization.val.scheme = "Bearer"

\* the Bearer token validates against the configured secret, issuer,
\* audience and not-before time (and is a token the validation's defaults pass)
TokenValidates ==
    LET jwt == au_request.val.authorization.val.token.val
    IN  /\ jwt.well_formed /\ jwt.defaults_ok
        /\ jwt.key = au_config.jwt_secret_key
        /\ jwt.iss = ISSUER
        /\ jwt.aud = AUDIENCE
        /\ jwt.nbf_reached

Accepted == au_result.ret = Ok("Auth")

\* C36: the Auth extractor accepts a request if and only if its original URI
\* matches the configured public_routes or it carries a Bearer token that
\* validates against the configured secret, issuer, audience and not-before
\* time; on a non-public route a missing or malformed Authorization header is
\* rejected with a request error and an invalid token with
\* AuthError::InvalidJwt; on a public route the request is accepted without
\* the Authorization header being examined.
C36_AuthAcceptsPublicOrValidToken ==
    au_request.some =>
        /\ Accepted <=> (OnPublicRoute \/ (CarriesBearer /\ TokenValidates))
        /\ (~OnPublicRoute /\ ~CarriesBearer) =>
              ~au_result.ret.ok /\ au_result.ret.err.kind = "RequestError"
        /\ (~OnPublicRoute /\ CarriesBearer /\ ~TokenValidates) =>
              au_result.ret = Err([kind |-> "AuthError::InvalidJwt"])
        /\ OnPublicRoute => Accepted /\ ~au_result.header_examined

\* a request without Authorization header whose original URI is on a public
\* route and whose routed uri is not
C36_Witness ==
    /\ au_request.some
    /\ OnPublicRoute
    /\ ~au_request.val.authorization.some
    /\ au_request.val.uri.path # au_request.val.original_uri.path
    /\ Accepted

\* a request off the public routes with a token signed with another key
C36_WitnessInvalidJwt ==
    /\ au_request.some
    /\ ~OnPublicRoute /\ au_config.public_routes # {}
    /\ CarriesBearer
    /\ au_request.val.authorization.val.token.val.key # au_config.jwt_secret_key
    /\ au_result.ret = Err([kind |-> "AuthError::InvalidJwt"])

====
